---- MODULE Spec2Model ----
(***************************************************************************)
(* A model of rclarey/torrent: the in-memory tracker, the UDP tracker      *)
(* client, the piece/block validator, the peer sessions of a Torrent, the  *)
(* Client accept loop, the Storage wrapper, the announcer loop and the     *)
(* tracker server's request stream.                                        *)
(*                                                                         *)
(* Each subsystem has its own next-state relation and specification; the   *)
(* variables of the other subsystems stay at their initial values.         *)
(***************************************************************************)
EXTENDS Integers, Sequences, FiniteSets, TLC

VARIABLES
  \* ---- in-memory tracker (src/server/in_memory_tracker.ts)
  infoMap,      \* Map<string, FileInfo>: info hash -> swarm record
  order,        \* insertion order of infoMap's keys (Map iteration order)
  now,          \* Date.now(), in milliseconds
  sweepPos,     \* position of a suspended sweepAndDelete in `order`, 0 = no sweep running
  lastSweep,    \* value of `now` at which the interval timer last fired
  lastPass,     \* sweepAndDelete's last pass over a swarm: what it deleted, counters before and after
  nAnnounces,   \* number of announces handled so far (bounds the run)
  prevDownloaded, \* history: each swarm's `downloaded` before the last step
  \* ---- UDP tracker client, withConnect (src/tracker.ts)
  ucPc,         \* "loop" | "awaitConnect" | "awaitRequest" | "returned" | "threwError" | "gaveUp"
  retryAttempt, \* let retryAttempt
  connectionId, \* let connectionId: "null" or "id"
  connTimer,    \* time at which the connTimer callback is due, -1 = no timer pending
  ucNow,        \* milliseconds since withConnect was called
  ucDeadline,   \* time at which the pending withTimeout rejects, -1 = none pending
  nSent,        \* history: datagrams sent
  nUnmatched,   \* history: datagrams sent that got no matching reply
  ucConn,       \* history: the connect reply the cached connection id was taken from
  \* ---- piece/block validator called on its own (src/piece.ts)
  blkInfo,      \* the InfoDict passed in
  blkMsg,       \* the RequestMsg / PieceMsg passed in
  blkOp,        \* "none" | "request" | "piece": which validator ran
  blkResult,    \* "none" | "ok" | "throws"
  \* ---- Client accept loop, Torrent peer sessions, Storage
  accPc,        \* acceptConnections: "idle" | "recvStart" | "sendHs" | "recvEnd"
  accConn,      \* the connection the accept loop is handling, or "none"
  conns,        \* connection -> [state, dir, wire, hash, advId]
  peersMap,     \* Torrent.peers: peer id -> the connection of the Peer stored there
  sess,         \* connection -> the Peer made for it by addPeer, with its loop's position
  written,      \* Storage.#written: the block indices set so far
  nMsgs,        \* number of messages read so far (bounds the run)
  lastStorage,  \* history: the Storage call made by the last step, if any, and the piece it sent
  \* ---- Torrent announcer, doAnnounce (src/torrent.ts)
  anPc,         \* "announcing" (awaiting announce) | "sleeping" (awaiting #announceSignal)
  anInterval,   \* let interval, in seconds
  anEvent,      \* #announceInfo.event
  anNumWant,    \* #announceInfo.numWant
  anNow,        \* seconds since the torrent was created
  anWake,       \* time at which the pending setTimeout resolves the signal, -1 = none
  anFailedAt,   \* history: when the last announce failed, -1 if it did not fail
  anWokenBy,    \* history: what ended the last sleep: "none" | "timer" | "signal"
  anSignal,     \* #announceSignal: "undefined" | "pending" | "resolved"
  anSent,       \* event and numWant of the announce last sent, and when it was sent
  anSucceeded,  \* history: some announce has succeeded
  anAsked,      \* history: requestPeers() was called since the last success
  anReq,        \* history: the last requestPeers(): "none" | "served" | "pending" | "threw" | "lost"
  anSleptAt,    \* history: when the loop last went to sleep
  \* ---- tracker server request stream (src/server/tracker.ts)
  srvState,     \* "serving" | "thrown": the stream runTracker iterates threw
  srvConnIds,   \* TrackerServer.connectionIds
  srvLog,       \* history: each request received and what became of it
  srvNow,       \* seconds since the server started
  srvTimers,    \* pending timers that delete a connection id: [id, due]
  srvIssuedAt,  \* history: when each connection id was last issued, -1 = never
  \* ---- a peer's bitfield under have messages (src/torrent.ts, src/peer.ts)
  hvPieces,     \* metainfo.info.pieces.length
  hvPeer,       \* the Peer: bitfield (bytes) and the four flags
  hvPc,         \* "reading" | "exited": the peer's handleMessages loop
  hvPrev,       \* history: the Peer before the last message
  hvLast,       \* history: the index of the last have message, -1 if the last was none
  hvTrace,      \* history: the kinds of the messages handled
  \* ---- bencode / bdecode (src/bencode.ts)
  bcPc,         \* "start" | "encoded" | "received" | "decoded"
  bcValue,      \* the value given to bencode, or NoValue
  bcEncoded,    \* what bencode returned
  bcData,       \* the bytes given to bdecode
  bcCut,        \* history: whether bcData is a proper prefix of bcEncoded
  bcResult,     \* what bdecode did
  \* ---- compact peer lists (src/server/tracker.ts, src/tracker.ts)
  cpPc,         \* "start" | "encoded" | "decoded"
  cpTransport,  \* "http" | "udp": which respond() encodes
  cpPeers,      \* the peers given to respond(): [ip, port], ip a dotted quad
  cpBytes,      \* the compact peers the server sends
  cpDecoded,    \* what readCompactPeers returns
  \* ---- announces as the tracker server hands them to handleAnnounce
  lastReq,      \* the last announce: how it was sent and what handleAnnounce was given
  lastPeers,    \* the peer list req.respond was called with (ip:port keys)
  \* ---- the peer handshake as bytes (sendHandshake, startReceiveHandshake, endReceiveHandshake)
  hsInput,      \* the bytes the remote peer sends on the connection
  hsDir,        \* "in": accepted by the Client, "out": dialled by the Torrent
  hsAdv,        \* the peer id the tracker advertised for a dialled peer, <<>> when none
  hsPos,        \* how many bytes of hsInput have been read
  hsPc,         \* "start", "gotHash", "done"
  hsHash,       \* what startReceiveHandshake returned
  hsWrote,      \* whether our own handshake was written
  hsOutcome,    \* "none", "added" (addPeer was called), "closed"
  \* ---- readMessage on the bytes of a connection, and the dispatch of what it returns
  rmFrames,     \* the frames the remote peer sends, as the values it encoded
  rmInput,      \* the bytes of these frames on the connection, possibly cut short
  rmPos,        \* how many bytes of rmInput have been read
  rmPc,         \* "reading", "dispatch", "exited"
  rmLast,       \* what the last readMessage call returned, and where it started
  rmPeer,       \* the peer's isChoking and isInterested
  rmBefore,     \* rmPeer as it was when the last message was dispatched
  \* ---- the UDP socket of withConnect, with several tracker requests at once
  skOwner,      \* per request: whether its socket is open and bound to its port
  skPc,         \* per request: "idle" | "open" | "failed" (listenDatagram threw) | "done"
  skReplies,    \* the requests whose datagram has a reply on its way to the client's port
  skGot,        \* history, per request: the requests whose replies its socket received
  \* ---- readInt / writeInt and encodeBinaryData / decodeBinaryData (src/_bytes.ts)
  byKind,       \* which pair of functions this run applies: "int" | "binary" | "none"
  intVal,       \* the value to write, as its digits in base 256, most significant first
  intOff,       \* the offset in the buffer
  intBuf,       \* the buffer
  intResult,    \* what readInt returned
  bdBytes,      \* the bytes to encode
  bdText,       \* the string encodeBinaryData returned, as character codes
  bdBack,       \* the bytes decodeBinaryData returned
  byPc          \* "start" | "written" | "read" | "encoded" | "decoded"

trackerVars == <<infoMap, order, now, sweepPos, lastSweep, lastPass, nAnnounces, prevDownloaded>>
udpVars ==
  <<ucPc, retryAttempt, connectionId, connTimer, ucNow, ucDeadline, nSent, nUnmatched,
    ucConn>>

blockVars == <<blkInfo, blkMsg, blkOp, blkResult>>

peerVars == <<accPc, accConn, conns, peersMap, sess, written, nMsgs, lastStorage>>

announcerVars ==
  <<anPc, anInterval, anEvent, anNumWant, anNow, anWake, anFailedAt, anWokenBy,
    anSignal, anSent, anSucceeded, anAsked, anReq, anSleptAt>>
serverVars == <<srvState, srvConnIds, srvLog, srvNow, srvTimers, srvIssuedAt>>

haveVars == <<hvPieces, hvPeer, hvPc, hvPrev, hvLast, hvTrace>>

bencodeVars == <<bcPc, bcValue, bcEncoded, bcData, bcCut, bcResult>>

compactVars == <<cpPc, cpTransport, cpPeers, cpBytes, cpDecoded>>

swarmVars == <<lastReq, lastPeers>>

handshakeVars == <<hsInput, hsDir, hsAdv, hsPos, hsPc, hsHash, hsWrote, hsOutcome>>

frameVars == <<rmFrames, rmInput, rmPos, rmPc, rmLast, rmPeer, rmBefore>>

socketVars == <<skOwner, skPc, skReplies, skGot>>

bytesVars == <<byKind, intVal, intOff, intBuf, intResult, bdBytes, bdText, bdBack, byPc>>

vars == <<trackerVars, udpVars, blockVars, peerVars, announcerVars, serverVars, haveVars, bencodeVars, compactVars, swarmVars, handshakeVars, frameVars, socketVars, bytesVars>>

\* What each subsystem's steps leave alone.
exceptTracker == <<udpVars, blockVars, peerVars, announcerVars, serverVars, haveVars, bencodeVars, compactVars, swarmVars, handshakeVars, frameVars, socketVars, bytesVars>>
exceptUdp == <<trackerVars, blockVars, peerVars, announcerVars, serverVars, haveVars, bencodeVars, compactVars, swarmVars, handshakeVars, frameVars, socketVars, bytesVars>>
exceptBlock == <<trackerVars, udpVars, peerVars, announcerVars, serverVars, haveVars, bencodeVars, compactVars, swarmVars, handshakeVars, frameVars, socketVars, bytesVars>>
exceptPeers == <<trackerVars, udpVars, blockVars, announcerVars, serverVars, haveVars, bencodeVars, compactVars, swarmVars, handshakeVars, frameVars, socketVars, bytesVars>>
exceptAnnouncer == <<trackerVars, udpVars, blockVars, peerVars, serverVars, haveVars, bencodeVars, compactVars, swarmVars, handshakeVars, frameVars, socketVars, bytesVars>>
exceptServer == <<trackerVars, udpVars, blockVars, peerVars, announcerVars, haveVars, bencodeVars, compactVars, swarmVars, handshakeVars, frameVars, socketVars, bytesVars>>
exceptHave == <<trackerVars, udpVars, blockVars, peerVars, announcerVars, serverVars, bencodeVars, compactVars, swarmVars, handshakeVars, frameVars, socketVars, bytesVars>>
exceptBencode == <<trackerVars, udpVars, blockVars, peerVars, announcerVars, serverVars, haveVars, compactVars, swarmVars, handshakeVars, frameVars, socketVars, bytesVars>>
exceptCompact == <<trackerVars, udpVars, blockVars, peerVars, announcerVars, serverVars, haveVars, bencodeVars, swarmVars, handshakeVars, frameVars, socketVars, bytesVars>>
exceptSwarm == <<udpVars, blockVars, peerVars, announcerVars, serverVars, haveVars, bencodeVars, compactVars, handshakeVars, frameVars, socketVars, bytesVars>>
exceptHandshake == <<trackerVars, udpVars, blockVars, peerVars, announcerVars, serverVars, haveVars, bencodeVars, compactVars, swarmVars, frameVars, socketVars, bytesVars>>
exceptFrames == <<trackerVars, udpVars, blockVars, peerVars, announcerVars, serverVars, haveVars, bencodeVars, compactVars, swarmVars, handshakeVars, socketVars, bytesVars>>
exceptSockets == <<trackerVars, udpVars, blockVars, peerVars, announcerVars, serverVars, haveVars, bencodeVars, compactVars, swarmVars, handshakeVars, frameVars, bytesVars>>
exceptBytes == <<trackerVars, udpVars, blockVars, peerVars, announcerVars, serverVars, haveVars, bencodeVars, compactVars, swarmVars, handshakeVars, frameVars, socketVars>>

----------------------------------------------------------------------------
(* Helpers *)

Max(a, b) == IF a >= b THEN a ELSE b
Min(a, b) == IF a <= b THEN a ELSE b

RECURSIVE Pow2(_)
Pow2(n) == IF n = 0 THEN 1 ELSE 2 * Pow2(n - 1)

----------------------------------------------------------------------------
(* In-memory tracker *)

\* const CLEANUP_INTERVAL = 1000 * 60 * 15
CLEANUP_INTERVAL == 900000

\* The clock advances in steps of half a cleanup interval.
TickMs == CLEANUP_INTERVAL \div 2

MaxTicks == 5
MaxAnnounces == 3

Hashes == {"h1", "h2"}
PeerKeys == {"10.0.0.1:1", "10.0.0.2:2"}
AnnounceEvent == {"empty", "started", "completed", "stopped"}
LeftValues == {0, 1}

\* evaluateState(req)
evaluateState(event, left) ==
  IF event = "completed" \/ left = 0 THEN "seeder" ELSE "leecher"

\* A function with one key removed (Map.delete).
MapDelete(m, k) == [x \in (DOMAIN m) \ {k} |-> m[x]]

\* A function with one key set (Map.set).
MapSet(m, k, v) == [x \in (DOMAIN m) \cup {k} |-> IF x = k THEN v ELSE m[x]]

NewFileInfo == [complete |-> 0, downloaded |-> 0, incomplete |-> 0, peers |-> <<>>]

\* handleAnnounce, lines 98-126: create the requester's entry or update it.
\* Variant that forgets `fileInfo.incomplete -= 1` when a leecher becomes a seeder.
UpsertRequester_KeepIncomplete(fileInfo, key, event, left, t) ==
  LET state == evaluateState(event, left) IN
  IF key \notin DOMAIN fileInfo.peers
  THEN [fileInfo EXCEPT
          !.peers = MapSet(@, key, [state |-> state, lastUpdated |-> t]),
          !.incomplete = IF state = "leecher" THEN @ + 1 ELSE @,
          !.complete = IF state = "leecher" THEN @ ELSE @ + 1]
  ELSE LET promoted == fileInfo.peers[key].state = "leecher" /\ state = "seeder" IN
       [fileInfo EXCEPT
          !.complete = IF promoted THEN @ + 1 ELSE @,
          !.downloaded = IF promoted THEN @ + 1 ELSE @,
          !.peers[key] = [state |-> state, lastUpdated |-> t]]

UpsertRequester(fileInfo, key, event, left, t) ==
  LET state == evaluateState(event, left) IN
  IF key \notin DOMAIN fileInfo.peers
  THEN [fileInfo EXCEPT
          !.peers = MapSet(@, key, [state |-> state, lastUpdated |-> t]),
          !.incomplete = IF state = "leecher" THEN @ + 1 ELSE @,
          !.complete = IF state = "leecher" THEN @ ELSE @ + 1]
  ELSE LET promoted == fileInfo.peers[key].state = "leecher" /\ state = "seeder" IN
       [fileInfo EXCEPT
          !.incomplete = IF promoted THEN @ - 1 ELSE @,
          !.complete = IF promoted THEN @ + 1 ELSE @,
          !.downloaded = IF promoted THEN @ + 1 ELSE @,
          !.peers[key] = [state |-> state, lastUpdated |-> t]]

\* handleAnnounce, lines 129-138 and sweepAndDelete, lines 67-72: delete one
\* entry and decrement the counter its state names.
RemovePeer(fileInfo, key) ==
  IF key \notin DOMAIN fileInfo.peers THEN fileInfo
  ELSE [fileInfo EXCEPT
          !.peers = MapDelete(@, key),
          !.complete = IF fileInfo.peers[key].state = "seeder" THEN @ - 1 ELSE @,
          !.incomplete = IF fileInfo.peers[key].state = "seeder" THEN @ ELSE @ - 1]

\* The whole of handleAnnounce on the swarm's record (the response is computed
\* from the result and changes nothing).
AnnounceFileInfo(fileInfo, key, event, left, t) ==
  LET updated == UpsertRequester(fileInfo, key, event, left, t) IN
  IF event = "stopped" THEN RemovePeer(updated, key) ELSE updated

\* Variant that also evicts an entry that is exactly one interval old.
Stale_Inclusive(peer, t) == t - peer.lastUpdated >= CLEANUP_INTERVAL

\* sweepAndDelete: Date.now() - peer.lastUpdated > CLEANUP_INTERVAL
Stale(peer, t) == t - peer.lastUpdated > CLEANUP_INTERVAL

\* sweepAndDelete's inner loop over one swarm (lines 65-74).
RECURSIVE SweepPeers(_, _, _)
SweepPeers(fileInfo, keys, t) ==
  IF keys = {} THEN fileInfo
  ELSE LET k == CHOOSE x \in keys : TRUE
           next == IF Stale(fileInfo.peers[k], t)
                   THEN RemovePeer(fileInfo, k) ELSE fileInfo
       IN SweepPeers(next, keys \ {k}, t)

SweepFile(fileInfo, t) == SweepPeers(fileInfo, DOMAIN fileInfo.peers, t)

Counters(fileInfo) == [complete |-> fileInfo.complete, incomplete |-> fileInfo.incomplete]

\* One pass of the inner loop over swarm h at time t, as a record: the entries it
\* deleted with their age and state, and the swarm's counters before and after.
Pass(h, fileInfo, t) ==
  [h |-> h,
   evicted |-> {[key |-> k, age |-> t - fileInfo.peers[k].lastUpdated,
                 state |-> fileInfo.peers[k].state] :
                  k \in DOMAIN fileInfo.peers \ DOMAIN SweepFile(fileInfo, t).peers},
   before |-> Counters(fileInfo),
   after |-> Counters(SweepFile(fileInfo, t))]

NoPass == [h |-> "", evicted |-> {}, before |-> Counters(NewFileInfo), after |-> Counters(NewFileInfo)]

\* The interval timer set by runTracker is due.
SweepDue == now > lastSweep /\ now % CLEANUP_INTERVAL = 0

Downloaded == [h \in DOMAIN infoMap |-> infoMap[h].downloaded]

TrackerInit ==
  /\ infoMap = <<>>
  /\ order = <<>>
  /\ now = 0
  /\ sweepPos = 0
  /\ lastSweep = 0
  /\ lastPass = NoPass
  /\ nAnnounces = 0
  /\ prevDownloaded = <<>>

\* What handleAnnounce(req, infoMap) does to the tracker's own state.
AnnounceStep(h, key, event, left) ==
  /\ nAnnounces < MaxAnnounces
  /\ LET fileInfo == IF h \in DOMAIN infoMap THEN infoMap[h] ELSE NewFileInfo IN
     infoMap' = MapSet(infoMap, h, AnnounceFileInfo(fileInfo, key, event, left, now))
  /\ order' = IF h \in DOMAIN infoMap THEN order ELSE Append(order, h)
  /\ nAnnounces' = nAnnounces + 1
  /\ prevDownloaded' = Downloaded
  /\ UNCHANGED <<now, sweepPos, lastSweep, lastPass>>

\* runTracker's loop body for an AnnounceRequest: handleAnnounce(req, infoMap).
HandleAnnounce(h, key, event, left) ==
  /\ AnnounceStep(h, key, event, left)
  /\ UNCHANGED exceptTracker

\* Date.now() moves on. The timer callback runs when it is due, and a sweep is
\* suspended only across `await Promise.resolve()`, which takes no time.
TrackerTick ==
  /\ now < MaxTicks * TickMs
  /\ ~SweepDue
  /\ sweepPos = 0
  /\ now' = now + TickMs
  /\ prevDownloaded' = Downloaded
  /\ UNCHANGED <<infoMap, order, sweepPos, lastSweep, lastPass, nAnnounces>>
  /\ UNCHANGED exceptTracker

\* setInterval(() => sweepAndDelete(infoMap), CLEANUP_INTERVAL): the callback runs
\* sweepAndDelete up to its first `await Promise.resolve()`.
SweepStart ==
  /\ SweepDue
  /\ sweepPos = 0
  /\ lastSweep' = now
  /\ IF Len(order) = 0
     THEN /\ lastPass' = NoPass
          /\ UNCHANGED <<infoMap, sweepPos>>
     ELSE /\ infoMap' = [infoMap EXCEPT ![order[1]] = SweepFile(@, now)]
          /\ lastPass' = Pass(order[1], infoMap[order[1]], now)
          /\ sweepPos' = 1
  /\ prevDownloaded' = Downloaded
  /\ UNCHANGED <<order, now, nAnnounces>>
  /\ UNCHANGED exceptTracker

\* sweepAndDelete resumes after `await Promise.resolve()`: the next swarm, or the end.
SweepResume ==
  /\ sweepPos > 0
  /\ IF sweepPos < Len(order)
     THEN /\ infoMap' = [infoMap EXCEPT ![order[sweepPos + 1]] = SweepFile(@, now)]
          /\ lastPass' = Pass(order[sweepPos + 1], infoMap[order[sweepPos + 1]], now)
          /\ sweepPos' = sweepPos + 1
     ELSE /\ sweepPos' = 0
          /\ UNCHANGED <<infoMap, lastPass>>
  /\ prevDownloaded' = Downloaded
  /\ UNCHANGED <<order, now, lastSweep, nAnnounces>>
  /\ UNCHANGED exceptTracker

TrackerNext ==
  \/ \E h \in Hashes, key \in PeerKeys, event \in AnnounceEvent, left \in LeftValues :
       HandleAnnounce(h, key, event, left)
  \/ TrackerTick
  \/ SweepStart
  \/ SweepResume

----------------------------------------------------------------------------
(* Announces through the tracker server: parsing, handleAnnounce, the response *)

\* const DEFAULT_WANT = 50
DEFAULT_WANT == 50

\* ip:port keys of the peers that announce here.
SwarmPeerKeys == PeerKeys \cup {"10.0.0.3:3"}

\* The `event` parameter of an HTTP announce as sent ("" is `event=`).
HttpEvents == AnnounceEvent \cup {"", "paused"}

\* validateAnnounceParams, `event:`: a value that is NOT a key of AnnounceEvent is
\* passed on as it came, every other value becomes AnnounceEvent.empty.
HttpEvent(maybeEvent) ==
  IF maybeEvent # "" /\ maybeEvent \notin AnnounceEvent THEN maybeEvent ELSE "empty"

\* export const UDP_EVENT_MAP = [empty, completed, started, stopped]
UDP_EVENT_MAP == <<"empty", "completed", "started", "stopped">>

UdpEventCodes == 0 .. 3

\* event: UDP_EVENT_MAP[readInt(data, 4, 80)]
UdpEvent(code) == UDP_EVENT_MAP[code + 1]

\* `n <<= 8` on a JavaScript number: the low 24 bits move up, bit 23 becomes the sign.
Shl8(n) ==
  LET low == n % 16777216 IN
  IF low >= 8388608 THEN (low - 16777216) * 256 ELSE low * 256

\* readInt(arr, nBytes, offset) over the bytes it is given.
RECURSIVE ReadIntFrom(_, _)
ReadIntFrom(n, bytes) ==
  IF bytes = <<>> THEN n ELSE ReadIntFrom(Shl8(n) + Head(bytes), Tail(bytes))

readInt(bytes) == ReadIntFrom(0, bytes)

\* The num_want parameter of an HTTP announce: absent, or the Number() of its text,
\* which need not be an integer: frac stands for n + 0.5 ("0.5", "1.5").
NumWants == {-1, 0, 1, 60}
HalfNumWants == {0, 1}
NoNumWant == [present |-> FALSE, n |-> 0, frac |-> FALSE]
HttpNumWants ==
  {NoNumWant}
  \cup {[present |-> TRUE, n |-> x, frac |-> FALSE] : x \in NumWants}
  \cup {[present |-> TRUE, n |-> x, frac |-> TRUE] : x \in HalfNumWants}

\* iterateHttpRequests: valid.numWant ? Math.min(valid.numWant, DEFAULT_WANT) : DEFAULT_WANT
\* The whole part of the result, and whether a half comes with it.
HttpNumWant(nw) ==
  IF nw.present /\ (nw.n # 0 \/ nw.frac) THEN Min(nw.n, DEFAULT_WANT) ELSE DEFAULT_WANT

HttpNumWantFrac(nw) == nw.present /\ nw.frac /\ nw.n < DEFAULT_WANT

\* Bytes 92..95 of a UDP announce: 0xFFFFFFFF, 0, 1 and 60.
UdpNumWantFields ==
  {<<255, 255, 255, 255>>, <<0, 0, 0, 0>>, <<0, 0, 0, 1>>, <<0, 0, 0, 60>>}

\* iterateUdpRequests: numWant: Math.min(DEFAULT_WANT, readInt(data, 4, 92))
UdpNumWant(field) == Min(DEFAULT_WANT, readInt(field))

\* The elements of a set as a list. (The Map's insertion order of peers is not kept
\* by the model; no property here depends on the order of a peer list.)
RECURSIVE SetToSeq(_)
SetToSeq(S) ==
  IF S = {} THEN <<>>
  ELSE LET x == CHOOSE y \in S : TRUE IN <<x>> \o SetToSeq(S \ {x})

\* randomSelection(self, peers, n) for n, or n + 0.5 when frac: every list it can
\* return. With peers.size <= n all entries but self's; otherwise the loop
\* `while (n > 0)` takes 1 off n for each key it pushes, so it pushes n keys, one
\* more after a half, all distinct and other than self, chosen by Math.random(),
\* and no key at all when n <= 0. The set is empty when the loop cannot end: it
\* still wants a key and every key is self or picked.
randomSelection(self, peers, n, frac) ==
  IF Cardinality(DOMAIN peers) <= n
  THEN {SetToSeq(DOMAIN peers \ {self})}
  ELSE LET turns == IF frac THEN n + 1 ELSE n IN
       {out \in [1 .. turns -> DOMAIN peers \ {self}] :
          \A i, j \in 1 .. turns : out[i] = out[j] => i = j}

NoRequest ==
  [via |-> "none", h |-> "", key |-> "", stopSent |-> FALSE, event |-> "", numWant |-> 0,
   frac |-> FALSE, responded |-> TRUE]

SwarmInit ==
  /\ lastReq = NoRequest
  /\ lastPeers = <<>>

\* One announce from the wire to the response: the server's parsing gives event and
\* numWant, handleAnnounce updates the swarm and responds with [] after a stopped
\* event and with randomSelection's list otherwise. When randomSelection's loop
\* cannot end, respond is not called and the server, which runs the handler on
\* its only thread, takes no further request.
Announce(via, h, key, stopSent, event, left, numWant, frac) ==
  /\ lastReq.responded
  /\ AnnounceStep(h, key, event, left)
  /\ LET lists == IF event = "stopped" THEN {<<>>}
                  ELSE randomSelection(key, infoMap'[h].peers, numWant, frac)
     IN /\ lastReq' = [via |-> via, h |-> h, key |-> key, stopSent |-> stopSent,
                       event |-> event, numWant |-> numWant, frac |-> frac,
                       responded |-> lists # {}]
        /\ IF lists = {} THEN lastPeers' = <<>> ELSE \E out \in lists : lastPeers' = out
  /\ UNCHANGED exceptSwarm

\* GET /announce?...&event=ev&num_want=nw
HttpAnnounce(h, key, ev, left, nw) ==
  Announce("http", h, key, ev = "stopped", HttpEvent(ev), left, HttpNumWant(nw),
           HttpNumWantFrac(nw))

\* A UDP announce datagram with event code `code` and num_want bytes `field`.
UdpAnnounce(h, key, code, left, field) ==
  Announce("udp", h, key, code = 3, UdpEvent(code), left, UdpNumWant(field), FALSE)

SwarmNext ==
  \/ \E h \in Hashes, key \in SwarmPeerKeys, ev \in HttpEvents, left \in LeftValues,
        nw \in HttpNumWants :
       HttpAnnounce(h, key, ev, left, nw)
  \/ \E h \in Hashes, key \in SwarmPeerKeys, code \in UdpEventCodes, left \in LeftValues,
        field \in UdpNumWantFields :
       UdpAnnounce(h, key, code, left, field)

----------------------------------------------------------------------------
(* UDP tracker client: withConnect *)

\* export const UDP_MAX_ATTEMPTS = 8
UDP_MAX_ATTEMPTS == 8

\* The clock of the UDP client advances in steps of 15 seconds.
UdpTickMs == 1000 * 15

\* Variant with a connection id kept for two minutes.
ConnectionLifetimeMs_Long == 1000 * 120

\* connTimer = setTimeout(() => (connectionId = null), 1000 * 60)
ConnectionLifetimeMs == 1000 * 60

MaxUdpTicks == 257
MaxSent == 10

\* Variant without the exponential backoff.
AttemptTimeout_Flat(attempt) == 1000 * 15

\* withTimeout(..., 1000 * 15 * 2 ** retryAttempt)
AttemptTimeout(attempt) == 1000 * 15 * Pow2(attempt)

\* What a received datagram can be, as the code tells them apart: the transaction
\* id differs; it matches and the reply is well formed; it matches and the reply
\* is short or carries another action.
ReplyKinds == {"mismatch", "matchOk", "matchBad"}

\* History value: no connect reply accepted.
NoConnect == [kind |-> "none", at |-> -1]

UdpInit ==
  /\ ucPc = "loop"
  /\ retryAttempt = 0
  /\ connectionId = "null"
  /\ connTimer = -1
  /\ ucNow = 0
  /\ ucDeadline = -1
  /\ nSent = 0
  /\ nUnmatched = 0
  /\ ucConn = NoConnect

\* while (retryAttempt < UDP_MAX_ATTEMPTS) { if (connectionId === null) { ... send connect
UdpSendConnect ==
  /\ ucPc = "loop"
  /\ retryAttempt < UDP_MAX_ATTEMPTS
  /\ connectionId = "null"
  /\ nSent < MaxSent
  /\ ucPc' = "awaitConnect"
  /\ ucDeadline' = ucNow + AttemptTimeout(retryAttempt)
  /\ nSent' = nSent + 1
  /\ UNCHANGED <<retryAttempt, connectionId, connTimer, ucNow, nUnmatched>>
  /\ UNCHANGED ucConn
  /\ UNCHANGED exceptUdp

\* } else { reqBody.set(connectionId, 0); ... send the request
UdpSendRequest ==
  /\ ucPc = "loop"
  /\ retryAttempt < UDP_MAX_ATTEMPTS
  /\ connectionId # "null"
  /\ nSent < MaxSent
  /\ ucPc' = "awaitRequest"
  /\ ucDeadline' = ucNow + AttemptTimeout(retryAttempt)
  /\ nSent' = nSent + 1
  /\ UNCHANGED <<retryAttempt, connectionId, connTimer, ucNow, nUnmatched>>
  /\ UNCHANGED ucConn
  /\ UNCHANGED exceptUdp

\* withTimeout rejects: catch { retryAttempt += 1; continue; }
UdpTimeout ==
  /\ ucPc \in {"awaitConnect", "awaitRequest"}
  /\ ucNow >= ucDeadline
  /\ retryAttempt' = retryAttempt + 1
  /\ nUnmatched' = nUnmatched + 1
  /\ ucPc' = "loop"
  /\ ucDeadline' = -1
  /\ UNCHANGED <<connectionId, connTimer, ucNow, nSent, ucConn>>
  /\ UNCHANGED exceptUdp

\* socket.receive() resolves while a connect is pending (lines 122-140).
UdpConnectReply(kind) ==
  /\ ucPc = "awaitConnect"
  /\ ucDeadline' = -1
  /\ CASE kind = "mismatch" ->
            /\ ucPc' = "loop"
            /\ nUnmatched' = nUnmatched + 1
            /\ UNCHANGED <<connectionId, connTimer, ucConn>>
       [] kind = "matchBad" ->
            /\ ucPc' = "threwError"
            /\ UNCHANGED <<connectionId, connTimer, nUnmatched, ucConn>>
       [] kind = "matchOk" ->
            /\ ucPc' = "loop"
            /\ connectionId' = "id"
            /\ connTimer' = ucNow + ConnectionLifetimeMs
            /\ ucConn' = [kind |-> kind, at |-> ucNow]
            /\ UNCHANGED nUnmatched
  /\ UNCHANGED <<retryAttempt, ucNow, nSent>>
  /\ UNCHANGED exceptUdp

\* socket.receive() resolves while the request is pending (lines 156-165).
UdpRequestReply(kind) ==
  /\ ucPc = "awaitRequest"
  /\ ucDeadline' = -1
  /\ IF kind = "mismatch"
     THEN /\ ucPc' = "loop"
          /\ nUnmatched' = nUnmatched + 1
          /\ UNCHANGED connTimer
     ELSE /\ ucPc' = "returned"
          /\ connTimer' = -1
          /\ UNCHANGED nUnmatched
  /\ UNCHANGED <<retryAttempt, connectionId, ucNow, nSent, ucConn>>
  /\ UNCHANGED exceptUdp

\* The connTimer callback: connectionId = null.
UdpConnExpire ==
  /\ connTimer # -1
  /\ ucNow >= connTimer
  /\ connectionId' = "null"
  /\ connTimer' = -1
  /\ UNCHANGED <<ucPc, retryAttempt, ucNow, ucDeadline, nSent, nUnmatched>>
  /\ ucConn' = NoConnect
  /\ UNCHANGED exceptUdp

\* The loop ends: socket.close(); clearTimeout(connTimer); throw "could not connect to tracker".
UdpGiveUp ==
  /\ ucPc = "loop"
  /\ retryAttempt >= UDP_MAX_ATTEMPTS
  /\ ucPc' = "gaveUp"
  /\ connTimer' = -1
  /\ UNCHANGED <<retryAttempt, connectionId, ucNow, ucDeadline, nSent, nUnmatched>>
  /\ UNCHANGED ucConn
  /\ UNCHANGED exceptUdp

\* Time passes. A due timer fires before the clock moves past it.
UdpTick ==
  /\ ucPc \in {"loop", "awaitConnect", "awaitRequest"}
  /\ ucNow < MaxUdpTicks * UdpTickMs
  /\ ucDeadline = -1 \/ ucNow < ucDeadline
  /\ connTimer = -1 \/ ucNow < connTimer
  /\ ucNow' = ucNow + UdpTickMs
  /\ UNCHANGED <<ucPc, retryAttempt, connectionId, connTimer, ucDeadline, nSent, nUnmatched>>
  /\ UNCHANGED ucConn
  /\ UNCHANGED exceptUdp

UdpNext ==
  \/ UdpSendConnect
  \/ UdpSendRequest
  \/ UdpTimeout
  \/ \E kind \in ReplyKinds : UdpConnectReply(kind)
  \/ \E kind \in ReplyKinds : UdpRequestReply(kind)
  \/ UdpConnExpire
  \/ UdpGiveUp
  \/ UdpTick

----------------------------------------------------------------------------
(* Piece/block validator *)

\* export const BLOCK_SIZE = 1024 * 16
BLOCK_SIZE == 16384

CeilDiv(a, b) == (a + b - 1) \div b

\* An InfoDict, reduced to what the validators read: pieceLength, length and
\* pieces.length (the number of 20-byte digests).
InfoDict(pl, len) == [pieceLength |-> pl, length |-> len, nPieces |-> CeilDiv(len, pl)]

\* function pieceLength(n, info):
\*   (n === info.pieces.length - 1 && info.length % info.pieceLength) || info.pieceLength
pieceLength(n, info) ==
  IF n = info.nPieces - 1 /\ info.length % info.pieceLength # 0
  THEN info.length % info.pieceLength
  ELSE info.pieceLength

\* validateRequestedBlock: TRUE when it returns, FALSE when it throws.
validateRequestedBlock(info, msg) ==
  LET reqEnd == msg.offset + msg.length
      lastPieceLength == pieceLength(info.nPieces - 1, info)
  IN /\ ~(msg.index >= info.nPieces)
     /\ ~(\/ (msg.index = info.nPieces - 1 /\ reqEnd > lastPieceLength)
          \/ reqEnd > info.pieceLength)

\* validateReceivedBlock: TRUE when it returns, FALSE when it throws.
\* msg.length stands for msg.block.length.
validateReceivedBlock(info, msg) ==
  LET pieceLen == pieceLength(msg.index, info)
      numBlocks == CeilDiv(pieceLen, BLOCK_SIZE)
      nBlock == msg.offset \div BLOCK_SIZE
      lastBlockLength == IF pieceLen % BLOCK_SIZE # 0 THEN pieceLen % BLOCK_SIZE
                         ELSE BLOCK_SIZE
  IN /\ ~(msg.index >= info.nPieces)
     /\ ~(msg.offset % BLOCK_SIZE # 0)
     /\ IF msg.index = info.nPieces - 1 /\ nBlock = numBlocks - 1
        THEN ~(msg.length # lastBlockLength)
        ELSE ~(msg.length # BLOCK_SIZE)

\* Storage.checkIfValidBlock: TRUE when it returns, FALSE when it throws.
checkIfValidBlock(info, offset, length) ==
  LET nPiece == offset \div info.pieceLength
      pieceLen == IF nPiece = info.nPieces - 1
                  THEN info.length % info.pieceLength
                  ELSE info.pieceLength
      numBlocks == CeilDiv(pieceLen, BLOCK_SIZE)
      pieceOffset == offset - Max(0, nPiece - 1) * info.pieceLength
      nBlock == pieceOffset \div BLOCK_SIZE
      tail == (info.length % info.pieceLength) % BLOCK_SIZE
      lastBlockLength == IF tail # 0 THEN tail ELSE BLOCK_SIZE
  IN /\ ~(offset % BLOCK_SIZE # 0)
     /\ IF nPiece = info.nPieces - 1 /\ nBlock = numBlocks - 1
        THEN ~(length # lastBlockLength)
        ELSE ~(length # BLOCK_SIZE)

\* The torrents and messages the validators are tried on.
BlockInfos ==
  { InfoDict(pl, len) : pl \in {BLOCK_SIZE, 2 * BLOCK_SIZE},
                        len \in {BLOCK_SIZE, 2 * BLOCK_SIZE, 2 * BLOCK_SIZE + 848,
                                 3 * BLOCK_SIZE + 848, 4 * BLOCK_SIZE} }

BlockMsgs ==
  [index : 0 .. 3,
   offset : {0, 1, BLOCK_SIZE, 2 * BLOCK_SIZE, 3 * BLOCK_SIZE},
   length : {0, 848, BLOCK_SIZE, BLOCK_SIZE + 1}]

BlockInit ==
  /\ blkInfo \in BlockInfos
  /\ blkMsg \in BlockMsgs
  /\ blkOp = "none"
  /\ blkResult = "none"

\* case MsgId.request: validateRequestedBlock(this.metainfo.info, msg)
ValidateRequested ==
  /\ blkOp = "none"
  /\ blkOp' = "request"
  /\ blkResult' = IF validateRequestedBlock(blkInfo, blkMsg) THEN "ok" ELSE "throws"
  /\ UNCHANGED <<blkInfo, blkMsg>>
  /\ UNCHANGED exceptBlock

\* case MsgId.piece: validateReceivedBlock(this.metainfo.info, msg)
ValidateReceived ==
  /\ blkOp = "none"
  /\ blkOp' = "piece"
  /\ blkResult' = IF validateReceivedBlock(blkInfo, blkMsg) THEN "ok" ELSE "throws"
  /\ UNCHANGED <<blkInfo, blkMsg>>
  /\ UNCHANGED exceptBlock

\* Storage.get / Storage.set for the same block: this.checkIfValidBlock(offset, length)
\* at the absolute offset index * pieceLength + offset.
ValidateStored ==
  /\ blkOp = "none"
  /\ blkOp' = "storage"
  /\ blkResult' = IF checkIfValidBlock(blkInfo, blkMsg.index * blkInfo.pieceLength + blkMsg.offset,
                                       blkMsg.length)
                  THEN "ok" ELSE "throws"
  /\ UNCHANGED <<blkInfo, blkMsg>>
  /\ UNCHANGED exceptBlock

BlockNext ==
  \/ ValidateRequested
  \/ ValidateReceived
  \/ ValidateStored

----------------------------------------------------------------------------
(* Client accept loop, Torrent peer sessions, Storage *)

Conns == {"c1", "c2"}
PeerIds == {"p1", "p2"}
\* The client holds one torrent, with info hash "hT"; "hX" is any other hash.
KnownHashes == {"hT"}
InfoHashes == {"hT", "hX"}

MaxMsgs == 2

\* The torrent's InfoDict: two pieces of two blocks; the last piece ends in a
\* tail of 848 bytes.
TorrentInfo == InfoDict(2 * BLOCK_SIZE, 3 * BLOCK_SIZE + 848)

NoConn == [state |-> "unused", dir |-> "none", wire |-> <<>>, hash |-> "none", advId |-> "none"]

\* Variant whose peers start unchoked.
NewPeer_Unchoked(id) ==
  [id |-> id, isChoking |-> TRUE, isInterested |-> FALSE, amChoking |-> FALSE,
   amInterested |-> FALSE, bitfield |-> {}, pc |-> "reading",
   offset |-> 0, length |-> 0, index |-> 0, begin |-> 0, already |-> FALSE]

\* new Peer({id, conn, metainfo}) with the position of its handleMessages loop.
NewPeer(id) ==
  [id |-> id, isChoking |-> TRUE, isInterested |-> FALSE, amChoking |-> TRUE,
   amInterested |-> FALSE, bitfield |-> {}, pc |-> "reading",
   offset |-> 0, length |-> 0, index |-> 0, begin |-> 0, already |-> FALSE]

\* Variant that serves any info hash.
HasTorrent_Any(hash) == TRUE

\* const torrent = this.torrents.get(infoHash.toString()); if (!torrent) ...
HasTorrent(hash) == hash \in KnownHashes

\* Variant that leaves the entry in the map.
CleanupPeers_Keep(pm, id) == pm

\* this.peers.delete(peer.id)
CleanupPeers(pm, id) == MapDelete(pm, id)

\* What the StorageMethod does when called: succeeds, returns null / false, or throws.
MethodOutcomes == {"ok", "fail", "throw"}

\* Variant without the try / catch.
findAndDo_NoCatch(outcome) ==
  CASE outcome = "ok" -> "true"
    [] outcome = "fail" -> "false"
    [] outcome = "throw" -> "throws"

\* Storage.findAndDo for a single-file torrent: the action's result, false when it throws.
findAndDo(outcome) ==
  CASE outcome = "ok" -> "true"
    [] outcome = "fail" -> "false"
    [] outcome = "throw" -> "false"

\* Storage.get: "throws" (checkIfValidBlock), "bytes" or "null".
StorageGet(info, offset, length, outcome) ==
  IF ~checkIfValidBlock(info, offset, length) THEN "throws"
  ELSE LET success == findAndDo(outcome) IN
       CASE success = "true" -> "bytes"
         [] success = "false" -> "null"
         [] OTHER -> "throws"

\* Storage.set: "throws" (checkIfValidBlock), "true" or "false".
StorageSet(info, offset, length, outcome, wr) ==
  IF ~checkIfValidBlock(info, offset, length) THEN "throws"
  ELSE IF (offset \div BLOCK_SIZE) \in wr THEN "true"
  ELSE findAndDo(outcome)

\* Whether the call reaches the StorageMethod.
MethodCalled(op, info, offset, length, wr) ==
  /\ checkIfValidBlock(info, offset, length)
  /\ op = "set" => (offset \div BLOCK_SIZE) \notin wr

\* No piece message.
NoPiece == [index |-> -1, offset |-> -1, length |-> -1]

NoStorage ==
  [conn |-> "none", op |-> "none", method |-> "none", result |-> "none", sent |-> NoPiece]

\* Variant that serves a request whatever amChoking is.
Choked_Never(p) == FALSE

\* case MsgId.request: if (peer.amChoking) { break; }
Choked(p) == p.amChoking

\* The messages readMessage can hand to the loop. "eof" stands for every case in
\* which it returns null: end of stream, a read error, a frame whose length does
\* not fit its id.
\* Block coordinates: a full block, the tail block, a piece index out of range, a
\* length that is no block length, a block that runs over the end of the last piece.
BlockFields ==
  {[index |-> 0, offset |-> 0, length |-> BLOCK_SIZE],
   [index |-> 1, offset |-> BLOCK_SIZE, length |-> 848],
   [index |-> 2, offset |-> 0, length |-> BLOCK_SIZE],
   [index |-> 0, offset |-> 0, length |-> 1000],
   [index |-> 1, offset |-> BLOCK_SIZE, length |-> BLOCK_SIZE]}

PeerMsgs ==
  {[t |-> x] : x \in {"eof", "keepalive", "choke", "unchoke", "interested",
                       "uninterested", "cancel"}}
  \cup {[t |-> "have", index |-> i] : i \in 0 .. 2}
  \cup {[t |-> "bitfield", len |-> 0, bits |-> {}],
        [t |-> "bitfield", len |-> 1, bits |-> {1}],
        [t |-> "bitfield", len |-> 2, bits |-> {}]}
  \cup {[t |-> "request", index |-> f.index, offset |-> f.offset, length |-> f.length] :
          f \in BlockFields}
  \cup {[t |-> "piece", index |-> f.index, offset |-> f.offset, length |-> f.length] :
          f \in BlockFields}

PeerInit ==
  /\ accPc = "idle"
  /\ accConn = "none"
  /\ conns = [c \in Conns |-> NoConn]
  /\ peersMap = <<>>
  /\ sess = <<>>
  /\ written = {}
  /\ nMsgs = 0
  /\ lastStorage = NoStorage

\* Torrent.addPeer(buffId, conn): register the Peer, start its loop, send our bitfield.
AddPeer(c, id, cs) ==
  /\ sess' = MapSet(sess, c, NewPeer(id))
  /\ peersMap' = MapSet(peersMap, id, c)
  /\ conns' = [cs EXCEPT ![c].wire = Append(@, "bitfield")]

\* for await (const conn of this.listener): the next inbound connection.
Accept(c) ==
  /\ accPc = "idle"
  /\ conns[c].state = "unused"
  /\ accPc' = "recvStart"
  /\ accConn' = c
  /\ conns' = [conns EXCEPT ![c].state = "open", ![c].dir = "in"]
  /\ lastStorage' = NoStorage
  /\ UNCHANGED <<peersMap, sess, written, nMsgs>>
  /\ UNCHANGED exceptPeers

\* await startReceiveHandshake(conn) throws: catch (e) { conn.close() }
AcceptStartFails ==
  /\ accPc = "recvStart"
  /\ conns' = [conns EXCEPT ![accConn].state = "closed"]
  /\ accPc' = "idle"
  /\ accConn' = "none"
  /\ lastStorage' = NoStorage
  /\ UNCHANGED <<peersMap, sess, written, nMsgs>>
  /\ UNCHANGED exceptPeers

\* await startReceiveHandshake(conn) returns the info hash; without a torrent for
\* it: conn.close(); continue.
AcceptStartHandshake(hash) ==
  /\ accPc = "recvStart"
  /\ IF HasTorrent(hash)
     THEN /\ conns' = [conns EXCEPT ![accConn].hash = hash]
          /\ accPc' = "sendHs"
          /\ UNCHANGED accConn
     ELSE /\ conns' = [conns EXCEPT ![accConn].hash = hash, ![accConn].state = "closed"]
          /\ accPc' = "idle"
          /\ accConn' = "none"
  /\ lastStorage' = NoStorage
  /\ UNCHANGED <<peersMap, sess, written, nMsgs>>
  /\ UNCHANGED exceptPeers

\* await sendHandshake(conn, infoHash, this.peerId); a failed write goes to the catch.
AcceptSendHandshake(ok) ==
  /\ accPc = "sendHs"
  /\ IF ok
     THEN /\ conns' = [conns EXCEPT ![accConn].wire = Append(@, "handshake")]
          /\ accPc' = "recvEnd"
          /\ UNCHANGED accConn
     ELSE /\ conns' = [conns EXCEPT ![accConn].state = "closed"]
          /\ accPc' = "idle"
          /\ accConn' = "none"
  /\ lastStorage' = NoStorage
  /\ UNCHANGED <<peersMap, sess, written, nMsgs>>
  /\ UNCHANGED exceptPeers

\* await endReceiveHandshake(conn) throws: catch (e) { conn.close() }
AcceptEndFails ==
  /\ accPc = "recvEnd"
  /\ conns' = [conns EXCEPT ![accConn].state = "closed"]
  /\ accPc' = "idle"
  /\ accConn' = "none"
  /\ lastStorage' = NoStorage
  /\ UNCHANGED <<peersMap, sess, written, nMsgs>>
  /\ UNCHANGED exceptPeers

\* await endReceiveHandshake(conn) returns the peer id: torrent.addPeer(peerId, conn).
AcceptEndHandshake(id) ==
  /\ accPc = "recvEnd"
  /\ AddPeer(accConn, id, conns)
  /\ accPc' = "idle"
  /\ accConn' = "none"
  /\ lastStorage' = NoStorage
  /\ UNCHANGED <<written, nMsgs>>
  /\ UNCHANGED exceptPeers

\* Torrent.handleNewPeers, one announced peer: Deno.connect and sendHandshake.
\* advId is the peer id the tracker advertised, "none" in a compact list.
DialConnect(c, advId) ==
  /\ conns[c].state = "unused"
  /\ conns' = [conns EXCEPT ![c] = [state |-> "open", dir |-> "out",
                                    wire |-> <<"handshake">>, hash |-> "none",
                                    advId |-> advId]]
  /\ lastStorage' = NoStorage
  /\ UNCHANGED <<accPc, accConn, peersMap, sess, written, nMsgs>>
  /\ UNCHANGED exceptPeers

\* Torrent.handleNewPeers: a read of the peer's handshake throws: conn.close().
DialFails(c) ==
  /\ conns[c].state = "open"
  /\ conns[c].dir = "out"
  /\ c \notin DOMAIN sess
  /\ conns' = [conns EXCEPT ![c].state = "closed"]
  /\ lastStorage' = NoStorage
  /\ UNCHANGED <<accPc, accConn, peersMap, sess, written, nMsgs>>
  /\ UNCHANGED exceptPeers

\* Torrent.handleNewPeers: the peer's handshake arrives; info hash and peer id are
\* compared with the expected ones, then this.addPeer(peerId, conn).
DialHandshake(c, hash, id) ==
  /\ conns[c].state = "open"
  /\ conns[c].dir = "out"
  /\ c \notin DOMAIN sess
  /\ IF hash \notin KnownHashes \/ (conns[c].advId # "none" /\ id # conns[c].advId)
     THEN /\ conns' = [conns EXCEPT ![c].state = "closed", ![c].hash = hash]
          /\ UNCHANGED <<peersMap, sess>>
     ELSE AddPeer(c, id, [conns EXCEPT ![c].hash = hash])
  /\ lastStorage' = NoStorage
  /\ UNCHANGED <<accPc, accConn, written, nMsgs>>
  /\ UNCHANGED exceptPeers

\* The end of handleMessages, by return or by throw, and addPeer's
\* .catch(...).then(() => { peer.conn.close(); this.peers.delete(peer.id) }).
ExitSession(c) ==
  /\ sess' = [sess EXCEPT ![c].pc = "exited"]
  /\ conns' = [conns EXCEPT ![c].state = "closed"]
  /\ peersMap' = CleanupPeers(peersMap, sess[c].id)

\* The loop goes on with peer record p.
ContinueSession(c, p) ==
  /\ sess' = [sess EXCEPT ![c] = p]
  /\ UNCHANGED <<conns, peersMap>>

\* handleMessages: one message from readMessage, up to the next await.
SessMessage(c, msg) ==
  /\ c \in DOMAIN sess
  /\ sess[c].pc = "reading"
  /\ nMsgs < MaxMsgs
  /\ nMsgs' = nMsgs + 1
  /\ LET p == sess[c] IN
     CASE msg.t = "eof" -> ExitSession(c)
       [] msg.t \in {"keepalive", "cancel"} -> ContinueSession(c, p)
       [] msg.t = "choke" -> ContinueSession(c, [p EXCEPT !.isChoking = TRUE])
       [] msg.t = "unchoke" -> ContinueSession(c, [p EXCEPT !.isChoking = FALSE])
       [] msg.t = "interested" -> ContinueSession(c, [p EXCEPT !.isInterested = TRUE])
       [] msg.t = "uninterested" -> ContinueSession(c, [p EXCEPT !.isInterested = FALSE])
       [] msg.t = "have" ->
            IF msg.index >= TorrentInfo.nPieces
            THEN ExitSession(c)
            ELSE ContinueSession(c, [p EXCEPT !.bitfield = @ \cup {msg.index}])
       [] msg.t = "bitfield" ->
            \* peer.bitfield.set(msg.bitfield): a RangeError when it is longer than
            \* the peer's one byte, nothing copied when it is empty
            IF msg.len > CeilDiv(TorrentInfo.nPieces, 8)
            THEN ExitSession(c)
            ELSE ContinueSession(c, [p EXCEPT !.bitfield = IF msg.len = 0 THEN @ ELSE msg.bits])
       [] msg.t = "request" ->
            IF ~validateRequestedBlock(TorrentInfo, msg)
            THEN ExitSession(c)
            ELSE IF Choked(p)
            THEN ContinueSession(c, p)
            ELSE ContinueSession(c, [p EXCEPT
                   !.pc = "getPending",
                   !.offset = msg.index * TorrentInfo.pieceLength + msg.offset,
                   !.length = msg.length,
                   !.index = msg.index,
                   !.begin = msg.offset])
       [] msg.t = "piece" ->
            IF ~validateReceivedBlock(TorrentInfo, msg)
            THEN ExitSession(c)
            \* Storage.set runs up to the call of the StorageMethod before the
            \* loop is suspended: this.#written[index] is read now
            ELSE ContinueSession(c, [p EXCEPT
                   !.pc = "setPending",
                   !.offset = msg.index * TorrentInfo.pieceLength + msg.offset,
                   !.length = msg.length,
                   !.already = ((msg.index * TorrentInfo.pieceLength + msg.offset)
                                  \div BLOCK_SIZE) \in written])
  /\ lastStorage' =
       IF msg.t = "request" /\ validateRequestedBlock(TorrentInfo, msg) /\ Choked(sess[c])
       THEN [NoStorage EXCEPT !.conn = c, !.op = "refused"]
       ELSE NoStorage
  /\ UNCHANGED <<accPc, accConn, written>>
  /\ UNCHANGED exceptPeers

\* The loop is back at readMessage; the handled message is out of scope.
Resume(p) ==
  [p EXCEPT !.pc = "reading", !.offset = 0, !.length = 0, !.index = 0, !.begin = 0,
            !.already = FALSE]

\* handleMessages, case request: await this.storage.get(...) settles.
SessStorageGet(c, outcome) ==
  /\ c \in DOMAIN sess
  /\ sess[c].pc = "getPending"
  /\ LET p == sess[c]
         res == StorageGet(TorrentInfo, p.offset, p.length, outcome)
         called == MethodCalled("get", TorrentInfo, p.offset, p.length, written)
     IN /\ lastStorage' = [conn |-> c, op |-> "get",
                           method |-> IF called THEN outcome ELSE "notCalled",
                           result |-> res,
                           sent |-> IF res = "bytes"
                                    THEN [index |-> p.index, offset |-> p.begin,
                                          length |-> p.length]
                                    ELSE NoPiece]
        /\ CASE res = "throws" -> ExitSession(c)
             [] res = "null" -> ContinueSession(c, Resume(p))
             [] res = "bytes" ->
                  \* sendPiece(peer.conn, msg.index, msg.offset, block)
                  /\ sess' = [sess EXCEPT ![c] = Resume(p)]
                  /\ conns' = [conns EXCEPT ![c].wire = Append(@, "piece")]
                  /\ UNCHANGED peersMap
  /\ UNCHANGED <<accPc, accConn, written, nMsgs>>
  /\ UNCHANGED exceptPeers

\* handleMessages, case piece: await this.storage.set(...) settles.
SessStorageSet(c, outcome) ==
  /\ c \in DOMAIN sess
  /\ sess[c].pc = "setPending"
  /\ LET p == sess[c]
         seen == IF p.already THEN {p.offset \div BLOCK_SIZE} ELSE {}
         res == StorageSet(TorrentInfo, p.offset, p.length, outcome, seen)
         called == MethodCalled("set", TorrentInfo, p.offset, p.length, seen)
     IN /\ lastStorage' = [conn |-> c, op |-> "set",
                           method |-> IF called THEN outcome ELSE "notCalled",
                           result |-> res, sent |-> NoPiece]
        /\ written' = IF called /\ res = "true"
                      THEN written \cup {p.offset \div BLOCK_SIZE} ELSE written
        /\ IF res = "throws"
           THEN ExitSession(c)
           ELSE ContinueSession(c, Resume(p))
  /\ UNCHANGED <<accPc, accConn, nMsgs>>
  /\ UNCHANGED exceptPeers

\* The choking policy, which is not part of this repository, writes the public
\* field Peer.amChoking, also while the loop awaits the storage.
SetAmChoking(c, b) ==
  /\ c \in DOMAIN sess
  /\ sess[c].pc # "exited"
  /\ sess[c].amChoking # b
  /\ sess' = [sess EXCEPT ![c].amChoking = b]
  /\ lastStorage' = NoStorage
  /\ UNCHANGED <<accPc, accConn, conns, peersMap, written, nMsgs>>
  /\ UNCHANGED exceptPeers

PeerNext ==
  \/ \E c \in Conns : Accept(c)
  \/ AcceptStartFails
  \/ \E hash \in InfoHashes : AcceptStartHandshake(hash)
  \/ \E ok \in BOOLEAN : AcceptSendHandshake(ok)
  \/ AcceptEndFails
  \/ \E id \in PeerIds : AcceptEndHandshake(id)
  \/ \E c \in Conns, advId \in PeerIds \cup {"none"} : DialConnect(c, advId)
  \/ \E c \in Conns : DialFails(c)
  \/ \E c \in Conns, hash \in InfoHashes, id \in PeerIds : DialHandshake(c, hash, id)
  \/ \E c \in Conns, msg \in PeerMsgs : SessMessage(c, msg)
  \/ \E c \in Conns, outcome \in MethodOutcomes : SessStorageGet(c, outcome)
  \/ \E c \in Conns, outcome \in MethodOutcomes : SessStorageSet(c, outcome)
  \/ \E c \in Conns, b \in BOOLEAN : SetAmChoking(c, b)

\* The steps of the repository's own code: nothing in it writes Peer.amChoking,
\* and the continuation of the request case after storage.get is left out
\* because no step leads to it.
TorrentNext ==
  \/ \E c \in Conns : Accept(c)
  \/ AcceptStartFails
  \/ \E hash \in InfoHashes : AcceptStartHandshake(hash)
  \/ \E ok \in BOOLEAN : AcceptSendHandshake(ok)
  \/ AcceptEndFails
  \/ \E id \in PeerIds : AcceptEndHandshake(id)
  \/ \E c \in Conns, advId \in PeerIds \cup {"none"} : DialConnect(c, advId)
  \/ \E c \in Conns : DialFails(c)
  \/ \E c \in Conns, hash \in InfoHashes, id \in PeerIds : DialHandshake(c, hash, id)
  \/ \E c \in Conns, msg \in PeerMsgs : SessMessage(c, msg)
  \/ \E c \in Conns, outcome \in MethodOutcomes : SessStorageSet(c, outcome)

----------------------------------------------------------------------------
(* Torrent announcer: doAnnounce and requestPeers *)

\* The intervals, in seconds, a tracker's response can carry.
TrackerIntervals == {1, 2}

MaxAnnouncerTicks == 4

\* announce(this.metainfo.announce, this.#announceInfo): announceHttp and
\* announceUdp read event and numWant when they are called.
Sent == [event |-> anEvent, numWant |-> anNumWant, at |-> anNow]

\* The constructor calls run(), which runs doAnnounce up to its first await.
AnnouncerInit ==
  /\ anPc = "announcing"
  /\ anInterval = 0
  /\ anEvent = "started"
  /\ anNumWant = 50
  /\ anNow = 0
  /\ anWake = -1
  /\ anFailedAt = -1
  /\ anWokenBy = "none"
  /\ anSignal = "undefined"
  /\ anSent = [event |-> "started", numWant |-> 50, at |-> 0]
  /\ anSucceeded = FALSE
  /\ anAsked = FALSE
  /\ anReq = "none"
  /\ anSleptAt = 0

\* setTimeout(this.#announceSignal.resolve, interval * 1000), as a due time in seconds.
WakeTime_Immediate(t, interval) == t

WakeTime(t, interval) == t + interval

\* await announce(...) resolves: the try block runs to its end, then the loop
\* arms the signal and the timer.
AnnounceSucceeds(interval) ==
  /\ anPc = "announcing"
  /\ anInterval' = interval
  /\ anNumWant' = 0
  /\ anEvent' = "empty"
  /\ anPc' = "sleeping"
  /\ anSignal' = "pending"
  /\ anWake' = WakeTime(anNow, interval)
  /\ anFailedAt' = -1
  /\ anSucceeded' = TRUE
  /\ anAsked' = FALSE
  /\ anSleptAt' = anNow
  /\ UNCHANGED <<anNow, anWokenBy, anSent, anReq>>
  /\ UNCHANGED exceptAnnouncer

\* await announce(...) rejects, or announce throws: catch {}, then the loop arms
\* the signal and the timer with the interval it has.
AnnounceFails ==
  /\ anPc = "announcing"
  /\ anPc' = "sleeping"
  /\ anSignal' = "pending"
  /\ anWake' = WakeTime(anNow, anInterval)
  /\ anFailedAt' = anNow
  /\ anSleptAt' = anNow
  /\ UNCHANGED <<anInterval, anEvent, anNumWant, anNow, anWokenBy, anSent, anSucceeded,
                 anAsked, anReq>>
  /\ UNCHANGED exceptAnnouncer

\* The timer resolves #announceSignal: the loop announces again.
AnnounceTimer ==
  /\ anPc = "sleeping"
  /\ anNow >= anWake
  /\ anPc' = "announcing"
  /\ anSignal' = "resolved"
  /\ anWake' = -1
  /\ anWokenBy' = "timer"
  /\ anSent' = Sent
  /\ anReq' = IF anReq = "pending"
              THEN (IF anNumWant = 50 THEN "served" ELSE "lost")
              ELSE anReq
  /\ UNCHANGED <<anInterval, anEvent, anNumWant, anNow, anFailedAt, anSucceeded, anAsked,
                 anSleptAt>>
  /\ UNCHANGED exceptAnnouncer

\* requestPeers() while the loop sleeps: numWant = 50, the signal resolves,
\* clearTimeout(to).
RequestPeers ==
  /\ anPc = "sleeping"
  /\ anNumWant' = 50
  /\ anPc' = "announcing"
  /\ anSignal' = "resolved"
  /\ anWake' = -1
  /\ anWokenBy' = "signal"
  /\ anSent' = [event |-> anEvent, numWant |-> 50, at |-> anNow]
  /\ anAsked' = TRUE
  /\ anReq' = "served"
  /\ UNCHANGED <<anInterval, anEvent, anNow, anFailedAt, anSucceeded, anSleptAt>>
  /\ UNCHANGED exceptAnnouncer

\* requestPeers() while an announce is awaited: numWant = 50, and resolve() on
\* the signal of the sleep before, which is resolved already.
RequestPeersInFlight ==
  /\ anPc = "announcing"
  /\ anSignal = "resolved"
  /\ anNumWant' = 50
  /\ anAsked' = TRUE
  /\ anReq' = "pending"
  /\ UNCHANGED <<anPc, anInterval, anEvent, anNow, anWake, anFailedAt, anWokenBy,
                 anSignal, anSent, anSucceeded, anSleptAt>>
  /\ UNCHANGED exceptAnnouncer

\* requestPeers() before the first announce has returned: numWant = 50, then
\* this.#announceSignal is undefined and .resolve() throws a TypeError.
RequestPeersNoSignal ==
  /\ anPc = "announcing"
  /\ anSignal = "undefined"
  /\ anNumWant' = 50
  /\ anAsked' = TRUE
  /\ anReq' = "threw"
  /\ UNCHANGED <<anPc, anInterval, anEvent, anNow, anWake, anFailedAt, anWokenBy,
                 anSignal, anSent, anSucceeded, anSleptAt>>
  /\ UNCHANGED exceptAnnouncer

\* Time passes. A due timer fires before the clock moves past it.
AnnouncerTick ==
  /\ anNow < MaxAnnouncerTicks
  /\ anWake = -1 \/ anNow < anWake
  /\ anNow' = anNow + 1
  /\ UNCHANGED <<anPc, anInterval, anEvent, anNumWant, anWake, anFailedAt, anWokenBy,
                 anSignal, anSent, anSucceeded, anAsked, anReq, anSleptAt>>
  /\ UNCHANGED exceptAnnouncer

AnnouncerNext ==
  \/ \E interval \in TrackerIntervals : AnnounceSucceeds(interval)
  \/ AnnounceFails
  \/ AnnounceTimer
  \/ RequestPeers
  \/ RequestPeersInFlight
  \/ RequestPeersNoSignal
  \/ AnnouncerTick

----------------------------------------------------------------------------
(* Tracker server: the request stream of TrackerServer, consumed by runTracker *)

MaxReqs == 3

MaxServerTicks == 3

\* setTimeout(..., 120000): a connection id lives for 120 seconds.
CONN_ID_LIFETIME_S == 120

\* The clock of the model moves in steps of half that time.
ServerTickS == CONN_ID_LIFETIME_S \div 2

ConnIds == {1, 2}

\* HTTP requests, by what the code looks at: the path; whether all of info_hash,
\* peer_id, ip, port, uploaded, downloaded, left, event are present; whether port
\* parses as a number; whether uploaded, downloaded and left parse as integers;
\* whether the filter list excludes the info hash.
HttpRequests ==
  {[proto |-> "http", path |-> "other", present |-> TRUE, port |-> "num", counts |-> "int", filtered |-> FALSE],
   [proto |-> "http", path |-> "scrape", present |-> TRUE, port |-> "num", counts |-> "int", filtered |-> FALSE],
   [proto |-> "http", path |-> "announce", present |-> TRUE, port |-> "num", counts |-> "int", filtered |-> FALSE],
   [proto |-> "http", path |-> "announce", present |-> TRUE, port |-> "num", counts |-> "int", filtered |-> TRUE],
   [proto |-> "http", path |-> "announce", present |-> FALSE, port |-> "num", counts |-> "int", filtered |-> FALSE],
   [proto |-> "http", path |-> "announce", present |-> TRUE, port |-> "nan", counts |-> "int", filtered |-> FALSE],
   [proto |-> "http", path |-> "announce", present |-> TRUE, port |-> "num", counts |-> "nan", filtered |-> FALSE]}

\* UDP datagrams: the action; whether the datagram has the length its action
\* needs; whether the filter list excludes the info hash of an announce; the
\* connection id it carries (0 = the connect magic).
UdpDatagrams ==
  [proto : {"udp"}, action : {"connect"}, short : BOOLEAN, filtered : {FALSE}, connId : {0}]
  \cup [proto : {"udp"}, action : {"announce"}, short : {FALSE}, filtered : BOOLEAN,
        connId : ConnIds]
  \cup [proto : {"udp"}, action : {"announce", "scrape"}, short : {TRUE}, filtered : {FALSE},
        connId : {1}]
  \cup [proto : {"udp"}, action : {"scrape"}, short : {FALSE}, filtered : {FALSE},
        connId : {1}]

\* validateAnnounceParams: "null", "throws" (BigInt of a string that is no
\* integer) or "info".
validateAnnounceParams(r) ==
  IF ~r.present THEN "null"
  ELSE IF r.counts = "nan" THEN "throws"
  ELSE "info"

\* iterateHttpRequests, one turn of the loop: "ignored" (continue without a
\* response), "failure" (sendHttpError), "delivered" (yield) or "threw".
HttpOutcome(r) ==
  IF r.path = "other" THEN "ignored"
  ELSE IF r.path = "scrape" THEN "delivered"
  ELSE LET valid == validateAnnounceParams(r) IN
       IF valid = "throws" THEN "threw"
       ELSE IF valid = "null" THEN "failure"
       ELSE IF r.filtered THEN "failure"
       ELSE "delivered"

\* Variant that takes any connection id for a known one.
UdpOutcome_AnyId(d, ids) ==
  IF d.short \/ (d.action = "announce" /\ d.filtered) THEN "failure+delivered"
  ELSE "delivered"

\* iterateUdpRequests, one turn of the loop for an announce or a scrape:
\* "ignored" (unknown connection id), "delivered" (yield), or "failure+delivered"
\* (sendUdpError for a short datagram or for an announce of a filtered info hash,
\* and the yield that follows it all the same).
UdpOutcome(d, ids) ==
  IF d.connId \notin ids THEN "ignored"
  ELSE IF d.short \/ (d.action = "announce" /\ d.filtered) THEN "failure+delivered"
  ELSE "delivered"

\* How long ago the connection id of a datagram was last issued, -1 if never.
IdAge(id) ==
  IF id \in ConnIds /\ srvIssuedAt[id] # -1 THEN srvNow - srvIssuedAt[id] ELSE -1

ServerInit ==
  /\ srvState = "serving"
  /\ srvConnIds = {}
  /\ srvLog = <<>>
  /\ srvNow = 0
  /\ srvTimers = {}
  /\ srvIssuedAt = [id \in ConnIds |-> -1]

\* for await (const httpRequest of this.httpServer!) { ... }
HttpRequest(r) ==
  /\ srvState = "serving"
  /\ Len(srvLog) < MaxReqs
  /\ srvLog' = Append(srvLog, [req |-> r, outcome |-> HttpOutcome(r), age |-> -1])
  /\ srvState' = IF HttpOutcome(r) = "threw" THEN "thrown" ELSE "serving"
  /\ UNCHANGED <<srvConnIds, srvNow, srvTimers, srvIssuedAt>>
  /\ UNCHANGED exceptServer

\* iterateUdpRequests: a connect request. A short one is answered with an error
\* frame and, all the same, with a connection id. The id is random: it may be
\* one that is in use.
UdpConnect(d, id) ==
  /\ srvState = "serving"
  /\ Len(srvLog) < MaxReqs
  /\ d.action = "connect"
  /\ srvConnIds' = srvConnIds \cup {id}
  /\ srvTimers' = srvTimers \cup {[id |-> id, due |-> srvNow + CONN_ID_LIFETIME_S]}
  /\ srvIssuedAt' = [srvIssuedAt EXCEPT ![id] = srvNow]
  /\ srvLog' = Append(srvLog, [req |-> d,
                               outcome |-> IF d.short THEN "failure+connected"
                                           ELSE "connected",
                               age |-> -1])
  /\ UNCHANGED <<srvState, srvNow>>
  /\ UNCHANGED exceptServer

\* iterateUdpRequests: an announce or a scrape datagram.
UdpRequest(d) ==
  /\ srvState = "serving"
  /\ Len(srvLog) < MaxReqs
  /\ d.action # "connect"
  /\ srvLog' = Append(srvLog, [req |-> d, outcome |-> UdpOutcome(d, srvConnIds),
                               age |-> IdAge(d.connId)])
  /\ UNCHANGED <<srvState, srvConnIds, srvNow, srvTimers, srvIssuedAt>>
  /\ UNCHANGED exceptServer

\* setTimeout(() => this.connectionIds.delete(numConnId), 120000)
ConnIdExpires(id) ==
  /\ \E t \in srvTimers :
       /\ t.id = id
       /\ srvNow >= t.due
       /\ srvTimers' = srvTimers \ {t}
  /\ srvConnIds' = srvConnIds \ {id}
  /\ UNCHANGED <<srvState, srvLog, srvNow, srvIssuedAt>>
  /\ UNCHANGED exceptServer

\* After the stream threw, runTracker's loop is over: what arrives is not served.
RequestUnserved(r) ==
  /\ srvState = "thrown"
  /\ Len(srvLog) < MaxReqs
  /\ srvLog' = Append(srvLog, [req |-> r, outcome |-> "unserved", age |-> -1])
  /\ UNCHANGED <<srvState, srvConnIds, srvNow, srvTimers, srvIssuedAt>>
  /\ UNCHANGED exceptServer

\* Time passes. A due timer fires before the clock moves past it.
ServerTick ==
  /\ srvNow < MaxServerTicks * ServerTickS
  /\ \A t \in srvTimers : srvNow < t.due
  /\ srvNow' = srvNow + ServerTickS
  /\ UNCHANGED <<srvState, srvConnIds, srvLog, srvTimers, srvIssuedAt>>
  /\ UNCHANGED exceptServer

ServerNext ==
  \/ \E r \in HttpRequests : HttpRequest(r)
  \/ \E d \in UdpDatagrams, id \in ConnIds : UdpConnect(d, id)
  \/ \E d \in UdpDatagrams : UdpRequest(d)
  \/ \E id \in ConnIds : ConnIdExpires(id)
  \/ \E r \in HttpRequests \cup UdpDatagrams : RequestUnserved(r)
  \/ ServerTick

----------------------------------------------------------------------------
(* A peer's bitfield: have and bitfield messages in handleMessages *)

MaxPieces == 17

MaxHaveMsgs == 2

\* new Peer(...): the bitfield is new Uint8Array(Math.ceil(pieces.length / 8)).
HavePeer(n, isChoking, isInterested) ==
  [bitfield |-> [k \in 1..CeilDiv(n, 8) |-> 0],
   isChoking |-> isChoking, isInterested |-> isInterested,
   amChoking |-> TRUE, amInterested |-> FALSE]

\* const byte = msg.index >> 3 (as a position in a sequence that starts at 1)
HaveByte(index) == index \div 8 + 1

\* Variant that counts bits from the least significant one: 1 << bit.
HaveMask_LsbFirst(index) == Pow2(index % 8)

\* const bit = msg.index % 8; 128 >> bit
HaveMask(index) == 128 \div Pow2(index % 8)

\* byte |= mask, for a mask of one bit
OrMask(byte, mask) == IF (byte \div mask) % 2 = 1 THEN byte ELSE byte + mask

\* peer.bitfield[byte] |= 128 >> bit
SetHave(bitfield, index) ==
  [bitfield EXCEPT ![HaveByte(index)] = OrMask(@, HaveMask(index))]

HaveIdle ==
  /\ hvPieces = 1
  /\ hvPeer = HavePeer(1, TRUE, FALSE)
  /\ hvPc = "reading"
  /\ hvPrev = HavePeer(1, TRUE, FALSE)
  /\ hvLast = -1
  /\ hvTrace = <<>>

\* A peer of a torrent of 1..MaxPieces pieces; choke and interested messages may
\* have set its flags either way.
HaveInit ==
  /\ hvPieces \in 1..MaxPieces
  /\ \E c, i \in BOOLEAN : hvPeer = HavePeer(hvPieces, c, i)
  /\ hvPc = "reading"
  /\ hvPrev = hvPeer
  /\ hvLast = -1
  /\ hvTrace = <<>>

\* case MsgId.have
HaveMessage(index) ==
  /\ hvPc = "reading"
  /\ Len(hvTrace) < MaxHaveMsgs
  /\ hvPrev' = hvPeer
  /\ hvLast' = index
  /\ hvTrace' = Append(hvTrace, "have")
  /\ IF index >= hvPieces
     THEN /\ hvPc' = "exited"
          /\ UNCHANGED hvPeer
     ELSE /\ hvPeer' = [hvPeer EXCEPT !.bitfield = SetHave(@, index)]
          /\ UNCHANGED hvPc
  /\ UNCHANGED hvPieces
  /\ UNCHANGED exceptHave

\* case MsgId.bitfield, with a bitfield of len zero bytes:
\* peer.bitfield.set(msg.bitfield) throws RangeError when it does not fit.
ZeroBitfieldMessage(len) ==
  /\ hvPc = "reading"
  /\ Len(hvTrace) < MaxHaveMsgs
  /\ hvPrev' = hvPeer
  /\ hvLast' = -1
  /\ hvTrace' = Append(hvTrace, "bitfield")
  /\ IF len > Len(hvPeer.bitfield)
     THEN /\ hvPc' = "exited"
          /\ UNCHANGED hvPeer
     ELSE /\ hvPeer' = [hvPeer EXCEPT !.bitfield =
                          [k \in 1..Len(@) |-> IF k <= len THEN 0 ELSE @[k]]]
          /\ UNCHANGED hvPc
  /\ UNCHANGED hvPieces
  /\ UNCHANGED exceptHave

HaveNext ==
  \/ \E index \in 0..(MaxPieces + 1) : HaveMessage(index)
  \/ \E len \in 0..(CeilDiv(MaxPieces, 8) + 1) : ZeroBitfieldMessage(len)

----------------------------------------------------------------------------
(* bencode and bdecode. Bytes are numbers; a value is a record tagged "int",
   "bytes", "list" or "dict"; a dictionary is the sequence of its entries in the
   order Object.entries yields them, which is the order of insertion for keys
   that are not integers. *)

COLON == 58
INTEGER == 105
LIST == 108
DICTIONARY == 100
END == 101

MINUS == 45

BInt(n) == [int |-> n]
BBytes(b) == [bytes |-> b]
BList(l) == [list |-> l]
BDict(d) == [dict |-> d]

\* The number NaN, and a number that is not NaN.
NaN == [nan |-> TRUE]
Num(n) == [num |-> n]

IsA(data, kind) == DOMAIN data = {kind}

\* n.toString() for n >= 0, as bytes
RECURSIVE NatToString(_)
NatToString(n) ==
  IF n < 10 THEN <<48 + n>> ELSE Append(NatToString(n \div 10), 48 + (n % 10))

\* Variant that drops the sign.
NumberToString_NoSign(n) == IF n < 0 THEN NatToString(-n) ELSE NatToString(n)

\* `${n}` for an integer n
NumberToString(n) == IF n < 0 THEN <<MINUS>> \o NatToString(-n) ELSE NatToString(n)

IsDigit(b) == b >= 48 /\ b <= 57

RECURSIVE DigitsToNat(_)
DigitsToNat(digits) ==
  IF digits = <<>> THEN 0
  ELSE DigitsToNat(SubSeq(digits, 1, Len(digits) - 1)) * 10 + (digits[Len(digits)] - 48)

\* Number(str) for a string over the digits, '-' and other characters: 0 for the
\* empty string, the integer for -?[0-9]+, NaN for anything else.
NumberOf(str) ==
  LET body == IF str # <<>> /\ str[1] = MINUS THEN SubSeq(str, 2, Len(str)) ELSE str IN
  IF str = <<>> THEN Num(0)
  ELSE IF body # <<>> /\ \A k \in 1..Len(body) : IsDigit(body[k])
  THEN IF str[1] = MINUS THEN Num(0 - DigitsToNat(body)) ELSE Num(DigitsToNat(body))
  ELSE NaN

\* The longest prefix of digits.
RECURSIVE DigitPrefix(_)
DigitPrefix(str) ==
  IF str = <<>> \/ ~IsDigit(str[1]) THEN <<>>
  ELSE <<str[1]>> \o DigitPrefix(SubSeq(str, 2, Len(str)))

\* parseInt(str): an optional '-', then the longest run of digits; NaN when
\* there is no digit.
ParseInt(str) ==
  LET neg == str # <<>> /\ str[1] = MINUS
      digits == DigitPrefix(IF neg THEN SubSeq(str, 2, Len(str)) ELSE str)
  IN IF digits = <<>> THEN NaN
     ELSE IF neg THEN Num(0 - DigitsToNat(digits)) ELSE Num(DigitsToNat(digits))

\* data[n], positions counted from 0; -1 stands for undefined
ByteAt(data, n) == IF n >= 0 /\ n < Len(data) THEN data[n + 1] ELSE -1

\* data.indexOf(byte, from)
RECURSIVE IndexOf(_, _, _)
IndexOf(data, byte, from) ==
  IF from >= Len(data) THEN -1
  ELSE IF data[from + 1] = byte THEN from
  ELSE IndexOf(data, byte, from + 1)

\* data.subarray(begin, end): a negative bound counts from the end, both are
\* clamped to the array
Subarray(data, begin, end) ==
  LET norm(x) == IF x < 0 THEN Max(Len(data) + x, 0) ELSE Min(x, Len(data))
  IN IF norm(end) <= norm(begin) THEN <<>> ELSE SubSeq(data, norm(begin) + 1, norm(end))

RECURSIVE encode(_)
RECURSIVE encodeList(_)
RECURSIVE encodeEntries(_)

\* for (let i = 0; i < data.length; i += 1) encode(byteArray, data[i])
encodeList(list) ==
  IF list = <<>> THEN <<>> ELSE encode(list[1]) \o encodeList(SubSeq(list, 2, Len(list)))

\* for (const [key, val] of Object.entries(data)) { encode(key); encode(val) }
encodeEntries(entries) ==
  IF entries = <<>> THEN <<>>
  ELSE encode(BBytes(entries[1].k)) \o encode(entries[1].v)
         \o encodeEntries(SubSeq(entries, 2, Len(entries)))

encode(data) ==
  CASE IsA(data, "bytes") -> NatToString(Len(data.bytes)) \o <<COLON>> \o data.bytes
    [] IsA(data, "list") -> <<LIST>> \o encodeList(data.list) \o <<END>>
    [] IsA(data, "dict") -> <<DICTIONARY>> \o encodeEntries(data.dict) \o <<END>>
    [] IsA(data, "int") -> <<INTEGER>> \o NumberToString(data.int) \o <<END>>

bencode(data) == encode(data)

\* What a decoding function does: returns [n, value], throws, or never returns
\* (a loop that does not end, or one that ends when memory or the stack does).
Returns(n, value) == [st |-> "ok", n |-> n, v |-> value]
Throws == [st |-> "throws"]
Diverges == [st |-> "diverges"]

decodeInt(data, start) ==
  IF ByteAt(data, start) # INTEGER THEN Throws
  ELSE LET end == IndexOf(data, END, start + 1) IN
       \* while (data[n] !== END): past the end data[n] is undefined, for ever
       IF end = -1 THEN Diverges
       ELSE LET value == NumberOf(Subarray(data, start + 1, end)) IN
            Returns(end + 1, IF value = NaN THEN NaN ELSE BInt(value.num))

decodeString(data, start) ==
  LET ind == IndexOf(data, COLON, start)
      length == ParseInt(Subarray(data, start, ind))
  IN IF length = NaN \/ length.num < 0 THEN Throws
     ELSE Returns(ind + length.num + 1,
                  BBytes(Subarray(data, ind + 1, ind + length.num + 1)))

\* dict[key] = value
DictSet(entries, key, value) ==
  IF \E j \in 1..Len(entries) : entries[j].k = key
  THEN [j \in 1..Len(entries) |->
          IF entries[j].k = key THEN [k |-> key, v |-> value] ELSE entries[j]]
  ELSE Append(entries, [k |-> key, v |-> value])

\* The decoding functions call each other. depth counts the calls of decode that
\* have not returned: past MaxDepth(data) the recursion cannot end and the stack
\* overflows, a RangeError that the caller can catch. fuel bounds the turns of the
\* loops: it runs out only in a loop that comes back to the same position without
\* a call left open, which goes on until memory runs out.
MaxDepth(data) == Len(data) + 1
MaxTurns(data) == (Len(data) + 3) * (Len(data) + 3)

RECURSIVE decode(_, _, _, _)
RECURSIVE decodeListLoop(_, _, _, _, _)
RECURSIVE decodeDictLoop(_, _, _, _, _)

\* decodeList: while (data[n] !== END) { [n, value] = decode(data, n); list.push(value) }
decodeListLoop(data, n, list, fuel, depth) ==
  IF fuel = 0 THEN Diverges
  ELSE IF ByteAt(data, n) = END THEN Returns(n + 1, BList(list))
  ELSE LET r == decode(data, n, fuel - 1, depth + 1) IN
       IF r.st # "ok" THEN r
       ELSE decodeListLoop(data, r.n, Append(list, r.v), fuel - 1, depth)

\* decodeDict: while (data[n] !== END) { key; value; dict[key] = value }
decodeDictLoop(data, n, dict, fuel, depth) ==
  IF fuel = 0 THEN Diverges
  ELSE IF ByteAt(data, n) = END THEN Returns(n + 1, BDict(dict))
  ELSE LET key == decodeString(data, n) IN
       IF key.st # "ok" THEN key
       ELSE LET r == decode(data, key.n, fuel - 1, depth + 1) IN
            IF r.st # "ok" THEN r
            ELSE decodeDictLoop(data, r.n, DictSet(dict, key.v.bytes, r.v), fuel - 1, depth)

decode(data, start, fuel, depth) ==
  IF depth > MaxDepth(data) THEN Throws
  ELSE IF fuel = 0 THEN Diverges
  ELSE CASE ByteAt(data, start) = DICTIONARY -> decodeDictLoop(data, start + 1, <<>>, fuel, depth)
         [] ByteAt(data, start) = LIST -> decodeListLoop(data, start + 1, <<>>, fuel, depth)
         [] ByteAt(data, start) = INTEGER -> decodeInt(data, start)
         [] OTHER -> decodeString(data, start)

\* bdecode(data): decode(data, 0)[1]
bdecode(data) ==
  LET r == decode(data, 0, MaxTurns(data), 0) IN
  IF r.st = "ok" THEN [st |-> "ok", v |-> r.v] ELSE r

\* The values given to bencode: integers, byte strings (among them the empty one
\* and ones made of the bytes "e", "1", ":" and "i"), lists and dictionaries of
\* them, lists and dictionaries of those. The keys are "a" and "b".
BcInts == {-12, 0, 7}
BcByteStrings == {<<>>, <<101>>, <<49, 58, 105>>}
BcAtoms == {BInt(n) : n \in BcInts} \cup {BBytes(x) : x \in BcByteStrings}
BcKeyA == <<97>>
BcKeyB == <<98>>

BcListsOf(S) == {BList(<<>>)} \cup {BList(<<x>>) : x \in S}

BcPairsOf(S) == {BList(<<x, y>>) : x \in S, y \in S}

\* Dictionaries of one entry, and of two entries inserted in either order.
BcDictsOf(S) ==
  {BDict(<<>>)}
  \cup {BDict(<<[k |-> key, v |-> x]>>) : key \in {BcKeyA, BcKeyB}, x \in S}
  \cup {BDict(<<[k |-> BcKeyA, v |-> x], [k |-> BcKeyB, v |-> y]>>) : x \in S, y \in S}
  \cup {BDict(<<[k |-> BcKeyB, v |-> y], [k |-> BcKeyA, v |-> x]>>) : x \in S, y \in S}

BcLevel1 == BcAtoms \cup BcListsOf(BcAtoms) \cup BcPairsOf(BcAtoms) \cup BcDictsOf(BcAtoms)

BencodeValues ==
  BcLevel1
  \cup BcListsOf(BcLevel1 \ BcAtoms)
  \cup {BDict(<<[k |-> BcKeyA, v |-> x]>>) : x \in BcLevel1 \ BcAtoms}

NoValue == [none |-> TRUE]

\* Bytes that come from elsewhere:
\*   "i12": an integer without its e
\*   "i-e": an integer body that is no number
\*   "ide": another
\*   "-1:d": a negative string length
\*   "d:i": no string length at all
\*   "5:de": a string cut short
\*   "li1e": a list without its e
\*   "d1:di1e": a dictionary without its e
\*   "l00": a length without its colon, inside a list, that leads back to the list
\*   "l10": one that leads back to itself
MalformedInputs ==
  {<<105, 49, 50>>,
   <<105, 45, 101>>,
   <<105, 100, 101>>,
   <<45, 49, 58, 100>>,
   <<100, 58, 105>>,
   <<53, 58, 100, 101>>,
   <<108, 105, 49, 101>>,
   <<100, 49, 58, 100, 105, 49, 101>>,
   <<108, 48, 48>>,
   <<108, 49, 48>>}

NoResult == [st |-> "none"]

BencodeIdle ==
  /\ bcPc = "start"
  /\ bcValue = BInt(0)
  /\ bcEncoded = <<>>
  /\ bcData = <<>>
  /\ bcCut = FALSE
  /\ bcResult = NoResult

BencodeInit ==
  /\ bcEncoded = <<>>
  /\ bcCut = FALSE
  /\ bcResult = NoResult
  /\ \/ /\ bcValue \in BencodeValues
        /\ bcPc = "start"
        /\ bcData = <<>>
     \/ /\ bcValue = NoValue
        /\ bcPc = "received"
        /\ bcData \in MalformedInputs

\* bencode(data)
Bencode ==
  /\ bcPc = "start"
  /\ bcEncoded' = bencode(bcValue)
  /\ bcData' = bencode(bcValue)
  /\ bcPc' = "encoded"
  /\ UNCHANGED <<bcValue, bcCut, bcResult>>
  /\ UNCHANGED exceptBencode

\* The bytes are cut off after the first len of them before they are decoded.
BencodeTruncate(len) ==
  /\ bcPc = "encoded"
  /\ len < Len(bcEncoded)
  /\ bcData' = SubSeq(bcEncoded, 1, len)
  /\ bcCut' = TRUE
  /\ bcPc' = "received"
  /\ UNCHANGED <<bcValue, bcEncoded, bcResult>>
  /\ UNCHANGED exceptBencode

\* bdecode(data)
Bdecode ==
  /\ bcPc \in {"encoded", "received"}
  /\ bcResult' = bdecode(bcData)
  /\ bcPc' = "decoded"
  /\ UNCHANGED <<bcValue, bcEncoded, bcData, bcCut>>
  /\ UNCHANGED exceptBencode

MaxEncodedLen == 24

BencodeNext ==
  \/ Bencode
  \/ \E len \in 1..MaxEncodedLen : BencodeTruncate(len)
  \/ Bdecode

----------------------------------------------------------------------------
(* Compact peer lists: AnnounceRequest.respond on the server, readCompactPeers
   on the client. An ip is a string, here the bytes of its characters. *)

MaxCompactPeers == 2

DOT == 46

\* The dotted quad of four octets.
DottedQuad(o) ==
  NatToString(o[1]) \o <<DOT>> \o NatToString(o[2]) \o <<DOT>>
    \o NatToString(o[3]) \o <<DOT>> \o NatToString(o[4])

\* str.split(".")
RECURSIVE SplitDots(_)
SplitDots(str) ==
  LET dot == IndexOf(str, DOT, 0) IN
  IF dot = -1 THEN <<str>>
  ELSE <<Subarray(str, 0, dot)>> \o SplitDots(Subarray(str, dot + 1, Len(str)))

\* bytes.join(".")
RECURSIVE JoinDots(_)
JoinDots(bytes) ==
  IF bytes = <<>> THEN <<>>
  ELSE IF Len(bytes) = 1 THEN NatToString(bytes[1])
  ELSE NatToString(bytes[1]) \o <<DOT>> \o JoinDots(SubSeq(bytes, 2, Len(bytes)))

\* What an element of a Uint8Array holds after a number is stored in it.
ToUint8(x) == IF x = NaN THEN 0 ELSE x.num % 256

\* Variant that writes the low byte of the port first.
PortBytes_LowFirst(port) == <<port % 256, (port \div 256) % 256>>

\* (port / 256) | 0 and port % 256; writeInt(port, body, 2, ...) gives the same
PortBytes(port) == <<(port \div 256) % 256, port % 256>>

\* HttpAnnounceRequest.respond, compact: six bytes for a peer
CompactPeerHttp(peer) ==
  LET parts == SplitDots(peer.ip)
      part(j) == IF j <= Len(parts) THEN ToUint8(NumberOf(parts[j])) ELSE 0
  IN <<part(1), part(2), part(3), part(4)>> \o PortBytes(peer.port)

\* UdpAnnounceRequest.respond: six bytes for a peer, or "throws"
CompactPeerUdp(peer) ==
  LET parts == SplitDots(peer.ip) IN
  IF Len(parts) # 4 \/ \E j \in 1..Len(parts) : NumberOf(parts[j]) = NaN
  THEN "throws"
  ELSE [j \in 1..4 |-> ToUint8(NumberOf(parts[j]))] \o PortBytes(peer.port)

RECURSIVE CompactPeers(_, _)
CompactPeers(peers, transport) ==
  IF peers = <<>> THEN <<>>
  ELSE (IF transport = "http" THEN CompactPeerHttp(peers[1]) ELSE CompactPeerUdp(peers[1]))
         \o CompactPeers(SubSeq(peers, 2, Len(peers)), transport)

\* readCompactPeers: for (let i = 0; i < peers.length - 5; i += 6)
RECURSIVE readCompactPeers(_)
readCompactPeers(peers) ==
  IF Len(peers) - 5 <= 0 THEN <<>>
  ELSE <<[ip |-> JoinDots(SubSeq(peers, 1, 4)), port |-> peers[5] * 256 + peers[6]]>>
         \o readCompactPeers(SubSeq(peers, 7, Len(peers)))

CpQuads == {<<0, 0, 0, 0>>, <<255, 255, 255, 255>>, <<10, 0, 7, 255>>, <<192, 168, 1, 20>>}
CpPorts == {0, 255, 256, 6881, 65535}
CpPeers == {[ip |-> DottedQuad(o), port |-> p] : o \in CpQuads, p \in CpPorts}

CompactIdle ==
  /\ cpPc = "start"
  /\ cpTransport = "http"
  /\ cpPeers = <<>>
  /\ cpBytes = <<>>
  /\ cpDecoded = <<>>

CompactInit ==
  /\ cpPc = "start"
  /\ cpTransport \in {"http", "udp"}
  /\ \E k \in 0..MaxCompactPeers : cpPeers \in [1..k -> CpPeers]
  /\ cpBytes = <<>>
  /\ cpDecoded = <<>>

\* respond(peers): the compact peers of the response body
CompactRespond ==
  /\ cpPc = "start"
  /\ cpBytes' = CompactPeers(cpPeers, cpTransport)
  /\ cpPc' = "encoded"
  /\ UNCHANGED <<cpTransport, cpPeers, cpDecoded>>
  /\ UNCHANGED exceptCompact

\* readCompactPeers(decoded.peers), readCompactPeers(result.subarray(20))
CompactRead ==
  /\ cpPc = "encoded"
  /\ cpDecoded' = readCompactPeers(cpBytes)
  /\ cpPc' = "decoded"
  /\ UNCHANGED <<cpTransport, cpPeers, cpBytes>>
  /\ UNCHANGED exceptCompact

CompactNext ==
  \/ CompactRespond
  \/ CompactRead

----------------------------------------------------------------------------
(* The peer handshake, byte by byte: sendHandshake's layout, the two receive
   functions, and their callers Client.acceptConnections and
   Torrent.handleNewPeers. *)

\* "BitTorrent protocol"
HANDSHAKE_PSTR ==
  <<66, 105, 116, 84, 111, 114, 114, 101, 110, 116, 32, 112, 114, 111, 116, 111, 99, 111, 108>>

\* The torrent's info hash, another info hash, and two peer ids.
HsInfoHash == [i \in 1 .. 20 |-> i]
HsOtherHash == [i \in 1 .. 20 |-> 100 + i]
HsPeerIds == {[i \in 1 .. 20 |-> 40 + i], [i \in 1 .. 20 |-> 70 + i]}

\* sendHandshake: new Uint8Array(68) with the header (pstr length, pstr, extension
\* bytes) at 0, infoHash at 28 and peerId at 48.
HandshakeBytes(reserved, infoHash, peerId) ==
  <<Len(HANDSHAKE_PSTR)>> \o HANDSHAKE_PSTR \o reserved \o infoHash \o peerId

\* The fields of a handshake, by sendHandshake's offsets.
InfoHashField(bytes) == SubSeq(bytes, 29, 48)
PeerIdField(bytes) == SubSeq(bytes, 49, 68)

ZeroReserved == [i \in 1 .. 8 |-> 0]

\* What a remote peer may send: handshakes with zero or other extension bytes, with
\* the torrent's info hash, another one, or one that only overlaps it; the same cut
\* short; and handshakes with another pstr length or pstr.
HsWellFormed ==
  {HandshakeBytes(r, h, p) :
     r \in {ZeroReserved, SubSeq(HsInfoHash, 1, 8)},
     h \in {HsInfoHash, HsOtherHash, SubSeq(HsInfoHash, 9, 20) \o SubSeq(HsOtherHash, 1, 8)},
     p \in HsPeerIds}

HsInputs ==
  HsWellFormed
  \cup {SubSeq(b, 1, n) : b \in HsWellFormed, n \in {0, 10, 30, 50}}
  \cup {[b EXCEPT ![1] = 18] : b \in HsWellFormed}
  \cup {[b EXCEPT ![2] = 98] : b \in HsWellFormed}

\* readN(conn, n) at position pos: the bytes, or a throw at the end of the stream.
CanRead(bytes, pos, n) == n >= 0 /\ pos + n <= Len(bytes)
ReadN(bytes, pos, n) == SubSeq(bytes, pos + 1, pos + n)

\* startReceiveHandshake: [ok |-> FALSE] when it throws, else the 20 bytes it
\* returns and the bytes read so far.
startReceiveHandshake(bytes) ==
  IF ~CanRead(bytes, 0, 1) THEN [ok |-> FALSE, value |-> <<>>, pos |-> 0]
  ELSE IF ReadN(bytes, 0, 1)[1] # 19 THEN [ok |-> FALSE, value |-> <<>>, pos |-> 1]
  ELSE IF ~CanRead(bytes, 1, 19) THEN [ok |-> FALSE, value |-> <<>>, pos |-> 1]
  ELSE IF ReadN(bytes, 1, 19) # HANDSHAKE_PSTR THEN [ok |-> FALSE, value |-> <<>>, pos |-> 20]
  ELSE IF ~CanRead(bytes, 20, 20) THEN [ok |-> FALSE, value |-> <<>>, pos |-> 20]
  ELSE [ok |-> TRUE, value |-> ReadN(bytes, 20, 20), pos |-> 40]

\* endReceiveHandshake: readN(conn, 20) from where the stream stands.
endReceiveHandshake(bytes, pos) ==
  IF ~CanRead(bytes, pos, 20) THEN [ok |-> FALSE, value |-> <<>>, pos |-> pos]
  ELSE [ok |-> TRUE, value |-> ReadN(bytes, pos, 20), pos |-> pos + 20]

HandshakeIdle ==
  /\ hsInput = <<>>
  /\ hsDir = "in"
  /\ hsAdv = <<>>
  /\ hsPos = 0
  /\ hsPc = "start"
  /\ hsHash = <<>>
  /\ hsWrote = FALSE
  /\ hsOutcome = "none"

\* A connection the Client accepted, or one the Torrent dialled (its own handshake
\* goes out first), with the bytes the remote peer will send.
HandshakeInit ==
  /\ hsInput \in HsInputs
  /\ hsDir \in {"in", "out"}
  /\ hsAdv \in (IF hsDir = "out" THEN HsPeerIds \cup {<<>>} ELSE {<<>>})
  /\ hsPos = 0
  /\ hsPc = "start"
  /\ hsHash = <<>>
  /\ hsWrote = (hsDir = "out")
  /\ hsOutcome = "none"

\* acceptConnections: startReceiveHandshake, this.torrents.get(infoHash.toString()),
\* conn.close() without a torrent, else sendHandshake.
HsAcceptStart ==
  /\ hsDir = "in"
  /\ hsPc = "start"
  /\ LET r == startReceiveHandshake(hsInput) IN
     /\ hsPos' = r.pos
     /\ hsHash' = r.value
     /\ IF r.ok /\ r.value = HsInfoHash
        THEN /\ hsPc' = "gotHash"
             /\ hsWrote' = TRUE
             /\ UNCHANGED hsOutcome
        ELSE /\ hsPc' = "done"
             /\ hsOutcome' = "closed"
             /\ UNCHANGED hsWrote
  /\ UNCHANGED <<hsInput, hsDir, hsAdv>>
  /\ UNCHANGED exceptHandshake

\* acceptConnections: endReceiveHandshake, then torrent.addPeer(peerId, conn); a
\* throw goes to the catch, which closes the connection.
HsAcceptEnd ==
  /\ hsDir = "in"
  /\ hsPc = "gotHash"
  /\ LET r == endReceiveHandshake(hsInput, hsPos) IN
     /\ hsPos' = r.pos
     /\ hsOutcome' = IF r.ok THEN "added" ELSE "closed"
  /\ hsPc' = "done"
  /\ UNCHANGED <<hsInput, hsDir, hsAdv, hsHash, hsWrote>>
  /\ UNCHANGED exceptHandshake

\* handleNewPeers: const infoHash = await startReceiveHandshake(conn)
HsDialStart ==
  /\ hsDir = "out"
  /\ hsPc = "start"
  /\ LET r == startReceiveHandshake(hsInput) IN
     /\ hsPos' = r.pos
     /\ hsHash' = r.value
     /\ IF r.ok
        THEN hsPc' = "gotHash" /\ UNCHANGED hsOutcome
        ELSE hsPc' = "done" /\ hsOutcome' = "closed"
  /\ UNCHANGED <<hsInput, hsDir, hsAdv, hsWrote>>
  /\ UNCHANGED exceptHandshake

\* handleNewPeers: endReceiveHandshake, the comparison of info hash and peer id,
\* this.addPeer(peerId, conn); every throw closes the connection.
HsDialEnd ==
  /\ hsDir = "out"
  /\ hsPc = "gotHash"
  /\ LET r == endReceiveHandshake(hsInput, hsPos) IN
     /\ hsPos' = r.pos
     /\ hsOutcome' = IF /\ r.ok
                        /\ ~(\/ hsHash # HsInfoHash
                             \/ (hsAdv # <<>> /\ r.value # hsAdv))
                     THEN "added" ELSE "closed"
  /\ hsPc' = "done"
  /\ UNCHANGED <<hsInput, hsDir, hsAdv, hsHash, hsWrote>>
  /\ UNCHANGED exceptHandshake

HandshakeNext ==
  \/ HsAcceptStart
  \/ HsAcceptEnd
  \/ HsDialStart
  \/ HsDialEnd

----------------------------------------------------------------------------
(* readMessage: the length-prefixed frames of the peer wire protocol, read from
   the bytes of a connection, and the loop of handleMessages around it. *)

\* enum MsgId
MsgChoke == 0
MsgUnchoke == 1
MsgInterested == 2
MsgUninterested == 3
MsgHave == 4
MsgBitfield == 5
MsgRequest == 6
MsgPiece == 7
MsgCancel == 8
KnownIds == MsgChoke .. MsgCancel

\* writeInt(n, arr, 4, offset) for 0 <= n: big endian.
BigEndian4(n) == <<(n \div 16777216) % 256, (n \div 65536) % 256, (n \div 256) % 256, n % 256>>

RECURSIVE BigEndian4s(_)
BigEndian4s(ints) ==
  IF ints = <<>> THEN <<>> ELSE BigEndian4(Head(ints)) \o BigEndian4s(Tail(ints))

\* The four length bytes of a frame; the remote peer may also send FF FF FF FF.
LengthBytes(len) == IF len < 0 THEN <<255, 255, 255, 255>> ELSE BigEndian4(len)

\* A frame as the remote peer builds it: length prefix, id, the integers of the
\* body and the bytes after them.
FrameBody(f) == BigEndian4s(f.ints) \o f.block
FrameBytes(f) ==
  LengthBytes(f.len) \o (IF f.len = 0 THEN <<>> ELSE <<f.id>> \o FrameBody(f))

Frame(len, id, ints, block) == [len |-> len, id |-> id, ints |-> ints, block |-> block]

\* Frames a remote peer may send: a keep-alive, every message of the protocol, the
\* same ids with another length, and ids the client does not know.
RmFrameSet ==
  { Frame(0, 0, <<>>, <<>>),
    Frame(1, MsgChoke, <<>>, <<>>),
    Frame(1, MsgUnchoke, <<>>, <<>>),
    Frame(1, MsgInterested, <<>>, <<>>),
    Frame(2, MsgUninterested, <<>>, <<0>>),
    Frame(5, MsgHave, <<3>>, <<>>),
    Frame(1, MsgHave, <<>>, <<>>),
    Frame(2, MsgBitfield, <<>>, <<160>>),
    Frame(13, MsgRequest, <<1, 0, 16384>>, <<>>),
    Frame(12, MsgRequest, <<0, 0>>, <<0, 0, 0>>),
    Frame(9, MsgPiece, <<0, 16384>>, <<>>),
    Frame(11, MsgPiece, <<1, 0>>, <<7, 9>>),
    Frame(8, MsgPiece, <<0>>, <<0, 0, 0>>),
    Frame(13, MsgCancel, <<1, 0, 16384>>, <<>>),
    Frame(1, 9, <<>>, <<>>),
    Frame(6, 20, <<>>, <<0, 0, 0, 1, 0>>),
    Frame(-1, 20, <<>>, <<>>) }

MaxFrames == 3
RmCuts == {0, 2}

RECURSIVE StreamBytes(_)
StreamBytes(frames) ==
  IF frames = <<>> THEN <<>> ELSE FrameBytes(Head(frames)) \o StreamBytes(Tail(frames))

NoMessage == [kind |-> "none", id |-> -1, ints |-> <<>>, block |-> <<>>, from |-> 0]
NullMessage(from) == [kind |-> "null", id |-> -1, ints |-> <<>>, block |-> <<>>, from |-> from]
KeepAlive(from) == [kind |-> "keepalive", id |-> -1, ints |-> <<>>, block |-> <<>>, from |-> from]
Message(id, ints, block, from) ==
  [kind |-> "msg", id |-> id, ints |-> ints, block |-> block, from |-> from]

\* The assert of each case of readMessage's switch.
AssertLength_None(id, length) == TRUE

AssertLength(id, length) ==
  CASE id \in MsgChoke .. MsgUninterested -> length = 1
    [] id = MsgHave -> length = 5
    [] id \in {MsgRequest, MsgCancel} -> length = 13
    [] id = MsgPiece -> length > 8
    [] OTHER -> TRUE

\* readMessage(conn) with the stream at pos: the value it returns and the position
\* it leaves the stream at. Every throw inside is caught and gives null.
RECURSIVE readMessage(_, _, _)
readMessage(bytes, pos, from) ==
  LET null == [msg |-> NullMessage(from), pos |-> pos] IN
  IF ~CanRead(bytes, pos, 4) THEN null
  ELSE
    LET length == readInt(ReadN(bytes, pos, 4)) IN
    IF length = 0 THEN [msg |-> KeepAlive(from), pos |-> pos + 4]
    ELSE IF ~CanRead(bytes, pos + 4, 1) THEN null
    ELSE
      LET id == ReadN(bytes, pos + 4, 1)[1]
          body == pos + 5
      IN
      IF ~AssertLength(id, length) THEN null
      ELSE
        CASE id \in MsgChoke .. MsgUninterested ->
               [msg |-> Message(id, <<>>, <<>>, from), pos |-> body]
          [] id = MsgHave ->
               IF ~CanRead(bytes, body, 4) THEN null
               ELSE [msg |-> Message(id, <<readInt(ReadN(bytes, body, 4))>>, <<>>, from),
                     pos |-> body + 4]
          [] id = MsgBitfield ->
               IF ~CanRead(bytes, body, length - 1) THEN null
               ELSE [msg |-> Message(id, <<>>, ReadN(bytes, body, length - 1), from),
                     pos |-> body + length - 1]
          [] id \in {MsgRequest, MsgCancel} ->
               IF ~CanRead(bytes, body, 12) THEN null
               ELSE [msg |-> Message(id, <<readInt(ReadN(bytes, body, 4)),
                                           readInt(ReadN(bytes, body + 4, 4)),
                                           readInt(ReadN(bytes, body + 8, 4))>>, <<>>, from),
                     pos |-> body + 12]
          [] id = MsgPiece ->
               IF ~CanRead(bytes, body, 8) \/ ~CanRead(bytes, body + 8, length - 9) THEN null
               ELSE [msg |-> Message(id, <<readInt(ReadN(bytes, body, 4)),
                                           readInt(ReadN(bytes, body + 4, 4))>>,
                                     ReadN(bytes, body + 8, length - 9), from),
                     pos |-> body + 8 + length - 9]
          [] OTHER ->
               IF ~CanRead(bytes, body, length - 1) THEN null
               ELSE readMessage(bytes, body + length - 1, from)

\* class Peer: isChoking = true; isInterested = false
NewFlags == [isChoking |-> TRUE, isInterested |-> FALSE]

FramesIdle ==
  /\ rmFrames = <<>>
  /\ rmInput = <<>>
  /\ rmPos = 0
  /\ rmPc = "reading"
  /\ rmLast = NoMessage
  /\ rmPeer = NewFlags
  /\ rmBefore = NewFlags

FramesInit ==
  /\ rmFrames \in UNION {[1 .. n -> RmFrameSet] : n \in 1 .. MaxFrames}
  /\ \E cut \in RmCuts :
       rmInput = SubSeq(StreamBytes(rmFrames), 1, Len(StreamBytes(rmFrames)) - cut)
  /\ rmPos = 0
  /\ rmPc = "reading"
  /\ rmLast = NoMessage
  /\ rmPeer = NewFlags
  /\ rmBefore = NewFlags

\* handleMessages: const msg = await readMessage(peer.conn)
RmRead ==
  /\ rmPc = "reading"
  /\ LET r == readMessage(rmInput, rmPos, rmPos) IN
     /\ rmLast' = r.msg
     /\ rmPos' = r.pos
  /\ rmPc' = "dispatch"
  /\ UNCHANGED <<rmFrames, rmInput, rmPeer, rmBefore>>
  /\ UNCHANGED exceptFrames

\* handleMessages: if (!msg) return; switch (msg.id). The cases of have, bitfield,
\* request and piece throw or go on according to the torrent and the storage.
RmDispatch ==
  /\ rmPc = "dispatch"
  /\ rmBefore' = rmPeer
  /\ IF rmLast.kind = "null"
     THEN rmPc' = "exited" /\ UNCHANGED rmPeer
     ELSE CASE rmLast.id = MsgChoke ->
                 rmPeer' = [rmPeer EXCEPT !.isChoking = TRUE] /\ rmPc' = "reading"
            [] rmLast.id = MsgUnchoke ->
                 rmPeer' = [rmPeer EXCEPT !.isChoking = FALSE] /\ rmPc' = "reading"
            [] rmLast.id = MsgInterested ->
                 rmPeer' = [rmPeer EXCEPT !.isInterested = TRUE] /\ rmPc' = "reading"
            [] rmLast.id = MsgUninterested ->
                 rmPeer' = [rmPeer EXCEPT !.isInterested = FALSE] /\ rmPc' = "reading"
            [] rmLast.id \in {MsgHave, MsgBitfield, MsgRequest, MsgPiece} ->
                 /\ rmPc' \in {"reading", "exited"}
                 /\ UNCHANGED rmPeer
            [] OTHER ->
                 rmPc' = "reading" /\ UNCHANGED rmPeer
  /\ UNCHANGED <<rmFrames, rmInput, rmPos, rmLast>>
  /\ UNCHANGED exceptFrames

FramesNext ==
  \/ RmRead
  \/ RmDispatch

----------------------------------------------------------------------------
(* The datagram socket of withConnect, when several tracker requests run at once *)

\* const socket = Deno.listenDatagram({ port: 6961, ... })
UDP_CLIENT_PORT == 6961

\* The local port the socket of request r is bound to.
PortOf(r) == UDP_CLIENT_PORT

\* Two torrents that announce and a scrape.
UdpRequests == {"announceA", "announceB", "scrape"}

SocketInit ==
  /\ skOwner = [r \in UdpRequests |-> FALSE]
  /\ skPc = [r \in UdpRequests |-> "idle"]
  /\ skReplies = {}
  /\ skGot = [r \in UdpRequests |-> {}]

\* withConnect starts: Deno.listenDatagram throws AddrInUse when another open
\* socket holds the port, and withConnect rejects.
SkOpen(r) ==
  /\ skPc[r] = "idle"
  /\ IF \E q \in UdpRequests : skOwner[q] /\ PortOf(q) = PortOf(r)
     THEN /\ skPc' = [skPc EXCEPT ![r] = "failed"]
          /\ UNCHANGED skOwner
     ELSE /\ skPc' = [skPc EXCEPT ![r] = "open"]
          /\ skOwner' = [skOwner EXCEPT ![r] = TRUE]
  /\ UNCHANGED <<skReplies, skGot>>
  /\ UNCHANGED exceptSockets

\* socket.send(connectBody or reqBody, serverAddr): the tracker will answer to
\* the port the datagram came from.
SkSend(r) ==
  /\ skPc[r] = "open"
  /\ r \notin skReplies
  /\ skReplies' = skReplies \cup {r}
  /\ UNCHANGED <<skOwner, skPc, skGot>>
  /\ UNCHANGED exceptSockets

\* The reply to the datagram of request `to` arrives at its port: socket.receive()
\* of the socket bound to that port resolves; without one the reply is lost.
SkReceive(to) ==
  /\ to \in skReplies
  /\ skReplies' = skReplies \ {to}
  /\ skGot' = [r \in UdpRequests |->
                 IF skOwner[r] /\ PortOf(r) = PortOf(to) THEN skGot[r] \cup {to} ELSE skGot[r]]
  /\ UNCHANGED <<skOwner, skPc>>
  /\ UNCHANGED exceptSockets

\* withConnect returns or throws: socket.close()
SkClose(r) ==
  /\ skPc[r] = "open"
  /\ skPc' = [skPc EXCEPT ![r] = "done"]
  /\ skOwner' = [skOwner EXCEPT ![r] = FALSE]
  /\ UNCHANGED <<skReplies, skGot>>
  /\ UNCHANGED exceptSockets

SocketNext ==
  \/ \E r \in UdpRequests : SkOpen(r)
  \/ \E r \in UdpRequests : SkSend(r)
  \/ \E to \in UdpRequests : SkReceive(to)
  \/ \E r \in UdpRequests : SkClose(r)

----------------------------------------------------------------------------
(* src/_bytes.ts: readInt and writeInt, encodeBinaryData and decodeBinaryData *)

\* JavaScript's % and the truncation of a quotient by | 0, on 32-bit integers.
JsRem(r, m) == IF r >= 0 \/ r % m = 0 THEN r % m ELSE (r % m) - m
JsQuot(r, m) == IF r >= 0 \/ r % m = 0 THEN r \div m ELSE (r \div m) + 1

\* ToInt32 of a non-negative integer given by its digits in base 256: the low
\* four digits, the highest of them carrying the sign.
ToInt32(digits) ==
  LET d == <<0, 0, 0, 0>> \o digits
      k == Len(d)
      top == IF d[k - 3] >= 128 THEN d[k - 3] - 256 ELSE d[k - 3]
  IN top * 16777216 + d[k - 2] * 65536 + d[k - 1] * 256 + d[k]

\* The loop of writeInt from its second turn on: remaining is a 32-bit integer,
\* arr[ind] = remaining % 256 is stored modulo 256.
RECURSIVE WriteRest(_, _)
WriteRest(remaining, k) ==
  IF k = 0 THEN <<>>
  ELSE WriteRest(JsQuot(remaining, 256), k - 1) \o <<JsRem(remaining, 256) % 256>>

\* writeInt(n, arr, nBytes, offset): the nBytes bytes it stores. The first turn
\* works on n itself: n % 256 is its last digit and (n / 256) | 0 is ToInt32 of
\* the digits before it.
WriteIntBytes(digits) ==
  LET k == Len(digits) IN
  IF k = 0 THEN <<>>
  ELSE WriteRest(ToInt32(SubSeq(digits, 1, k - 1)), k - 1) \o <<digits[k]>>

\* writeInt on a buffer; nBytes + offset > arr.length throws.
writeInt(digits, arr, offset) ==
  [i \in 1 .. Len(arr) |->
     IF i > offset /\ i <= offset + Len(digits) THEN WriteIntBytes(digits)[i - offset]
     ELSE arr[i]]

\* Values are written with 1 to 8 bytes; digits that bring out the sign bit and
\* the carries.
IntWidths == 1 .. 8
IntDigits == {0, 1, 128, 255}
IntOffsets == {0, 2}

\* A number that JavaScript holds exactly: below 2^53.
InExactRange(digits) ==
  CASE Len(digits) <= 6 -> TRUE
    [] Len(digits) = 7 -> digits[1] < 32
    [] OTHER -> digits[1] = 0 /\ digits[2] < 32

IntValues ==
  {d \in UNION {[1 .. n -> IntDigits] : n \in IntWidths} : InExactRange(d)}

\* str += `%${byte.toString(16)}`: the character codes of byte.toString(16).
HexChar(d) == IF d < 10 THEN 48 + d ELSE 87 + d
ToString16(byte) ==
  IF byte < 16 THEN <<HexChar(byte)>> ELSE <<HexChar(byte \div 16), HexChar(byte % 16)>>

\* The test of encodeBinaryData for a byte that is copied as a character.
Unreserved(byte) ==
  \/ (byte > 44 /\ byte < 58 /\ byte # 47)
  \/ (byte > 64 /\ byte < 91)
  \/ byte = 95
  \/ (byte > 96 /\ byte < 123)
  \/ byte = 126

PERCENT == 37

RECURSIVE encodeBinaryData(_)
encodeBinaryData(arr) ==
  IF arr = <<>> THEN <<>>
  ELSE (IF Unreserved(Head(arr)) THEN <<Head(arr)>> ELSE <<PERCENT>> \o ToString16(Head(arr)))
       \o encodeBinaryData(Tail(arr))

\* parseInt(text, 16) for a text of at most two characters, NaN stored in a
\* Uint8Array as 0: the longest prefix of hexadecimal digits counts.
HexValue(c) ==
  CASE c >= 48 /\ c <= 57 -> c - 48
    [] c >= 97 /\ c <= 102 -> c - 87
    [] c >= 65 /\ c <= 70 -> c - 55
    [] OTHER -> -1

ParseHex(text) ==
  IF text = <<>> \/ HexValue(text[1]) = -1 THEN 0
  ELSE IF Len(text) = 1 \/ HexValue(text[2]) = -1 THEN HexValue(text[1])
  ELSE HexValue(text[1]) * 16 + HexValue(text[2])

\* decodeBinaryData(s), from position i (0-based) on.
RECURSIVE DecodeFrom(_, _)
DecodeFrom(str, i) ==
  IF i >= Len(str) THEN <<>>
  ELSE IF str[i + 1] = PERCENT
       THEN <<ParseHex(SubSeq(str, i + 2, Min(i + 3, Len(str))))>> \o DecodeFrom(str, i + 3)
       ELSE <<str[i + 1]>> \o DecodeFrom(str, i + 1)

decodeBinaryData(str) == DecodeFrom(str, 0)

\* Byte sequences to encode: every single byte, and sequences of bytes of each
\* kind: below 16, escaped, '%', digits and letters that are hexadecimal or not.
MaxBinaryLen == 3
BinaryBytes == {0, 10, 16, 37, 47, 48, 70, 97, 120, 126, 200, 255}
BinaryInputs ==
  {<<b>> : b \in 0 .. 255} \cup UNION {[1 .. n -> BinaryBytes] : n \in 0 .. MaxBinaryLen}

BytesIdle ==
  /\ byKind = "none"
  /\ intVal = <<>>
  /\ intOff = 0
  /\ intBuf = <<>>
  /\ intResult = 0
  /\ bdBytes = <<>>
  /\ bdText = <<>>
  /\ bdBack = <<>>
  /\ byPc = "start"

BytesInit ==
  /\ byKind \in {"int", "binary"}
  /\ intVal \in (IF byKind = "int" THEN IntValues ELSE {<<>>})
  /\ intOff \in (IF byKind = "int" THEN IntOffsets ELSE {0})
  /\ intBuf = (IF byKind = "int" THEN [i \in 1 .. Len(intVal) + 2 |-> 170] ELSE <<>>)
  /\ intResult = 0
  /\ bdBytes \in (IF byKind = "binary" THEN BinaryInputs ELSE {<<>>})
  /\ bdText = <<>>
  /\ bdBack = <<>>
  /\ byPc = "start"

\* writeInt(v, buf, n, off)
WriteInt ==
  /\ byKind = "int"
  /\ byPc = "start"
  /\ intBuf' = writeInt(intVal, intBuf, intOff)
  /\ byPc' = "written"
  /\ UNCHANGED <<byKind, intVal, intOff, intResult, bdBytes, bdText, bdBack>>
  /\ UNCHANGED exceptBytes

\* readInt(buf, n, off)
ReadInt ==
  /\ byPc = "written"
  /\ intResult' = readInt(SubSeq(intBuf, intOff + 1, intOff + Len(intVal)))
  /\ byPc' = "read"
  /\ UNCHANGED <<byKind, intVal, intOff, intBuf, bdBytes, bdText, bdBack>>
  /\ UNCHANGED exceptBytes

\* encodeBinaryData(b)
EncodeBinary ==
  /\ byKind = "binary"
  /\ byPc = "start"
  /\ bdText' = encodeBinaryData(bdBytes)
  /\ byPc' = "encoded"
  /\ UNCHANGED <<byKind, intVal, intOff, intBuf, intResult, bdBytes, bdBack>>
  /\ UNCHANGED exceptBytes

\* decodeBinaryData(s)
DecodeBinary ==
  /\ byPc = "encoded"
  /\ bdBack' = decodeBinaryData(bdText)
  /\ byPc' = "decoded"
  /\ UNCHANGED <<byKind, intVal, intOff, intBuf, intResult, bdBytes, bdText>>
  /\ UNCHANGED exceptBytes

BytesNext ==
  \/ WriteInt
  \/ ReadInt
  \/ EncodeBinary
  \/ DecodeBinary

----------------------------------------------------------------------------
\* One block input for the runs that do not exercise the validator on its own.
BlockIdle ==
  /\ blkInfo = InfoDict(BLOCK_SIZE, BLOCK_SIZE)
  /\ blkMsg = [index |-> 0, offset |-> 0, length |-> BLOCK_SIZE]
  /\ blkOp = "none"
  /\ blkResult = "none"

\* The subsystems that start in one state.
CoreInit ==
  /\ TrackerInit
  /\ SwarmInit
  /\ UdpInit
  /\ PeerInit
  /\ AnnouncerInit
  /\ ServerInit
  /\ SocketInit

Init ==
  /\ CoreInit
  /\ BytesIdle
  /\ FramesIdle
  /\ HandshakeIdle
  /\ CompactIdle
  /\ BencodeIdle
  /\ BlockIdle
  /\ HaveIdle

SpecTracker == Init /\ [][TrackerNext]_vars

SpecSwarm == Init /\ [][SwarmNext]_vars

SpecUdp == Init /\ [][UdpNext]_vars

\* The same, with the block validators' input drawn from its bounded sets.
InitBlock ==
  /\ CoreInit
  /\ BytesIdle
  /\ FramesIdle
  /\ HandshakeIdle
  /\ CompactIdle
  /\ BencodeIdle
  /\ BlockInit
  /\ HaveIdle

SpecBlock == InitBlock /\ [][BlockNext]_vars

SpecPeers == Init /\ [][PeerNext]_vars

\* The peer sessions driven by the repository's code alone.
SpecTorrent == Init /\ [][TorrentNext]_vars

\* The same, with the torrent's number of pieces and the peer's flags drawn from
\* their bounded sets.
InitHave ==
  /\ CoreInit
  /\ BytesIdle
  /\ FramesIdle
  /\ HandshakeIdle
  /\ CompactIdle
  /\ BencodeIdle
  /\ BlockIdle
  /\ HaveInit

SpecHave == InitHave /\ [][HaveNext]_vars

\* The same, with the input of bencode and bdecode drawn from their bounded sets.
InitBencode ==
  /\ CoreInit
  /\ BytesIdle
  /\ FramesIdle
  /\ HandshakeIdle
  /\ CompactIdle
  /\ BlockIdle
  /\ HaveIdle
  /\ BencodeInit

SpecBencode == InitBencode /\ [][BencodeNext]_vars

\* The same, with the peers to encode drawn from their bounded sets.
InitCompact ==
  /\ CoreInit
  /\ BytesIdle
  /\ FramesIdle
  /\ HandshakeIdle
  /\ BlockIdle
  /\ HaveIdle
  /\ BencodeIdle
  /\ CompactInit

SpecCompact == InitCompact /\ [][CompactNext]_vars

\* The same, with the bytes of the remote peer's handshake drawn from their set.
InitHandshake ==
  /\ CoreInit
  /\ BytesIdle
  /\ CompactIdle
  /\ BencodeIdle
  /\ BlockIdle
  /\ HaveIdle
  /\ FramesIdle
  /\ HandshakeInit

SpecHandshake == InitHandshake /\ [][HandshakeNext]_vars

\* The same, with the frames of the remote peer drawn from their set.
InitFrames ==
  /\ CoreInit
  /\ BytesIdle
  /\ CompactIdle
  /\ BencodeIdle
  /\ BlockIdle
  /\ HaveIdle
  /\ HandshakeIdle
  /\ FramesInit

SpecFrames == InitFrames /\ [][FramesNext]_vars

\* The same, with the inputs of the functions of src/_bytes.ts drawn from their sets.
InitBytes ==
  /\ CoreInit
  /\ CompactIdle
  /\ BencodeIdle
  /\ BlockIdle
  /\ HaveIdle
  /\ HandshakeIdle
  /\ FramesIdle
  /\ BytesInit

SpecBytes == InitBytes /\ [][BytesNext]_vars

SpecAnnouncer == Init /\ [][AnnouncerNext]_vars

SpecSockets == Init /\ [][SocketNext]_vars

SpecServer == Init /\ [][ServerNext]_vars

\* C1: in every swarm, complete + incomplete equals the number of peer entries
\* whenever control can switch between tasks, and downloaded never decreases.
SwarmCountersConsistent ==
  \A h \in DOMAIN infoMap :
    /\ infoMap[h].complete + infoMap[h].incomplete = Cardinality(DOMAIN infoMap[h].peers)
    /\ h \in DOMAIN prevDownloaded => infoMap[h].downloaded >= prevDownloaded[h]

\* A sweep is suspended between swarms, and a swarm that saw a promotion
\* (downloaded > 0) and three announces is down to one freshly announced peer.
SwarmCountersWitness ==
  /\ sweepPos > 0
  /\ nAnnounces = 3
  /\ \E h \in DOMAIN infoMap :
       /\ infoMap[h].downloaded > 0
       /\ \E k \in DOMAIN infoMap[h].peers :
            /\ DOMAIN infoMap[h].peers = {k}
            /\ infoMap[h].peers[k].lastUpdated > 0

\* C4: withConnect sends at most 8 datagrams that get no matching reply, whatever
\* is received.
UdpAtMostEightUnmatched == nUnmatched <= UDP_MAX_ATTEMPTS

\* C5: after n failed attempts at least the sum over k < n of 15 * 2^k seconds
\* have passed, so giving up comes no earlier than 3825 seconds after the start.
UdpBackoffElapsed ==
  /\ ucNow >= 1000 * 15 * (Pow2(retryAttempt) - 1)
  /\ ucPc = "gaveUp" => ucNow >= 3825 * 1000

\* withConnect gave up after eight timeouts, having held a connection id on the way.
UdpBackoffWitness ==
  /\ ucPc = "gaveUp"
  /\ retryAttempt = UDP_MAX_ATTEMPTS
  /\ connectionId = "null"
  /\ nSent > UDP_MAX_ATTEMPTS

\* C6: for index < pieces.length, validateReceivedBlock succeeds exactly when the
\* offset is a multiple of the block size, offset + block.length stays within the
\* piece's effective length, and block.length is the block size or, for the final
\* block of the final piece, the residual tail.
ReceivedBlockGeometry ==
  (blkOp = "piece" /\ blkMsg.index < blkInfo.nPieces) =>
    LET pieceLen == pieceLength(blkMsg.index, blkInfo)
        finalBlock == /\ blkMsg.index = blkInfo.nPieces - 1
                      /\ blkMsg.offset < pieceLen
                      /\ blkMsg.offset + BLOCK_SIZE >= pieceLen
        tail == pieceLen - blkMsg.offset
    IN (blkResult = "ok") <=>
         /\ blkMsg.offset % BLOCK_SIZE = 0
         /\ blkMsg.offset + blkMsg.length <= pieceLen
         /\ \/ blkMsg.length = BLOCK_SIZE
            \/ finalBlock /\ blkMsg.length = tail

Registered(c) == \E id \in DOMAIN peersMap : peersMap[id] = c

Live(c) == c \in DOMAIN sess /\ sess[c].pc # "exited"

\* C2: once a peer's message loop has exited, for whatever reason, its connection
\* is closed and the peers map holds no entry for it.
ExitedPeerIsGone ==
  \A c \in DOMAIN sess :
    sess[c].pc = "exited" => conns[c].state = "closed" /\ ~Registered(c)

\* A session has exited while another one is still running and registered.
ExitedPeerWitness ==
  \E c, d \in DOMAIN sess :
    /\ sess[c].pc = "exited"
    /\ conns[c].state = "closed"
    /\ Live(d)
    /\ Registered(d)

\* C3: the end of one session never closes another live session's connection,
\* never changes the other peer's flags or bitfield, and never removes the other
\* session's entry from the peers map, whatever peer ids the two reported.
SiblingSessionsIsolated ==
  [][\A c, d \in DOMAIN sess :
       (c # d /\ Live(c) /\ Live(d) /\ sess'[c].pc = "exited") =>
         /\ conns'[d] = conns[d]
         /\ sess'[d] = sess[d]
         /\ \A id \in DOMAIN peersMap :
              peersMap[id] = d => (id \in DOMAIN peersMap' /\ peersMap'[id] = d)]_vars

StorageFailureKeepsSession ==
  [][\A c \in DOMAIN sess :
       (/\ sess[c].pc \in {"getPending", "setPending"}
        /\ sess'[c].pc # sess[c].pc
        /\ lastStorage'.method \in {"fail", "throw"}) =>
         /\ lastStorage'.result = IF sess[c].pc = "getPending" THEN "null" ELSE "false"
         /\ sess'[c].pc = "reading"
         /\ conns' = conns
         /\ peersMap' = peersMap]_vars

\* The StorageMethod threw under a get, and the session read its next message.
StorageFailureWitness ==
  /\ lastStorage.op = "get"
  /\ lastStorage.method = "throw"
  /\ lastStorage.result = "null"
  /\ Live(lastStorage.conn)
  /\ Registered(lastStorage.conn)
  /\ conns[lastStorage.conn].state = "open"

\* C9: a failed announce never ends the announcer loop, and the announce that
\* follows a failed one, when the timer and not requestPeers started it, starts
\* no sooner than one announce interval (a positive time) after the failure;
\* the first announce included.
AnnouncerWaitsAfterFailure ==
  /\ anPc \in {"announcing", "sleeping"}
  /\ (anPc = "announcing" /\ anFailedAt # -1 /\ anWokenBy = "timer")
       => /\ anNow - anFailedAt >= anInterval
          /\ anNow - anFailedAt > 0

\* What the claim calls malformed: an HTTP announce with a parameter missing or
\* not a number, a datagram shorter than its action needs.
Malformed(req) ==
  IF req.proto = "http"
  THEN req.path = "announce" /\ (~req.present \/ req.port = "nan" \/ req.counts = "nan")
  ELSE req.short

\* A well-formed HTTP announce for a served info hash, or an HTTP scrape.
ValidHttp(req) ==
  /\ req.proto = "http"
  /\ req.path \in {"announce", "scrape"}
  /\ ~Malformed(req)
  /\ ~req.filtered

\* A datagram of a client that never connected is dropped in silence, malformed
\* or not; the server has nobody to answer.
Answerable(req, i) ==
  req.proto = "udp" => (req.action = "connect" \/ srvLog[i].outcome # "ignored")

\* C10: every malformed request is answered with a failure response, every
\* valid request is delivered to the consumer whatever came before it, and the
\* request stream never throws.
ServerSurvivesMalformed ==
  /\ srvState = "serving"
  /\ \A i \in 1..Len(srvLog) :
       LET e == srvLog[i] IN
       /\ (Malformed(e.req) /\ Answerable(e.req, i))
            => e.outcome \in {"failure", "failure+delivered", "failure+connected"}
       /\ ValidHttp(e.req) => e.outcome = "delivered"

\* C11: a request that names an info hash the filter list excludes is answered
\* with a rejection and is not delivered to the consumer.
FilteredNeverDelivered ==
  \A i \in 1..Len(srvLog) :
    LET e == srvLog[i] IN
    (e.req.filtered /\ e.outcome \notin {"ignored", "unserved"}) => e.outcome = "failure"

\* C12: an announce or scrape datagram is delivered only if its connection id was
\* issued during the preceding 120 seconds; with any other connection id it gets
\* no reply and makes no request.
KnownConnectionIdOnly ==
  \A i \in 1..Len(srvLog) :
    LET e == srvLog[i] IN
    (e.req.proto = "udp" /\ e.req.action # "connect" /\ e.outcome # "unserved") =>
      IF e.age >= 0 /\ e.age <= CONN_ID_LIFETIME_S
      THEN e.outcome \in {"delivered", "failure+delivered", "ignored"}
      ELSE e.outcome = "ignored"

\* A datagram with a fresh connection id was delivered, and later one with the
\* same id, by then expired, was dropped.
KnownConnectionIdWitness ==
  \E i, j \in 1..Len(srvLog) :
    /\ i < j
    /\ srvLog[i].req.proto = "udp" /\ srvLog[i].outcome = "delivered"
    /\ srvLog[j].req.proto = "udp" /\ srvLog[j].outcome = "ignored"
    /\ srvLog[j].req.connId = srvLog[i].req.connId
    /\ srvLog[j].age > CONN_ID_LIFETIME_S

\* Bit b of a bitfield, bit 0 being the most significant bit of the first byte.
BitAt(bitfield, b) == (bitfield[b \div 8 + 1] \div Pow2(7 - (b % 8))) % 2 = 1

AllZero(bitfield) == \A k \in 1..Len(bitfield) : bitfield[k] = 0

RECURSIVE BytesLess(_, _)
BytesLess(a, b) ==
  IF b = <<>> THEN FALSE
  ELSE IF a = <<>> THEN TRUE
  ELSE IF a[1] # b[1] THEN a[1] < b[1]
  ELSE BytesLess(SubSeq(a, 2, Len(a)), SubSeq(b, 2, Len(b)))

\* Whether the keys of every dictionary in a value are in sorted order.
RECURSIVE SortedKeys(_)
SortedKeys(x) ==
  CASE IsA(x, "list") -> \A j \in 1..Len(x.list) : SortedKeys(x.list[j])
    [] IsA(x, "dict") ->
         /\ \A j \in 1..(Len(x.dict) - 1) : BytesLess(x.dict[j].k, x.dict[j + 1].k)
         /\ \A j \in 1..Len(x.dict) : SortedKeys(x.dict[j].v)
    [] OTHER -> TRUE

\* C14: for a value x of integers, byte strings, lists and dictionaries with
\* sorted keys, bdecode(bencode(x)) returns x.
BencodeRoundTrip ==
  (bcPc = "decoded" /\ ~bcCut /\ bcValue # NoValue /\ SortedKeys(bcValue)) =>
    bcResult = [st |-> "ok", v |-> bcValue]

\* A dictionary holding a negative integer and an empty byte string came back.
BencodeRoundTripWitness ==
  /\ bcPc = "decoded"
  /\ ~bcCut
  /\ bcValue = BDict(<<[k |-> BcKeyA, v |-> BInt(-12)], [k |-> BcKeyB, v |-> BBytes(<<>>)]>>)
  /\ bcResult = [st |-> "ok", v |-> bcValue]

\* C15: bdecode throws on every input that is cut short, has a string length
\* that is no number or is negative, lacks a terminating e, or has an integer
\* body that is no number.
BdecodeRejectsMalformed ==
  (bcPc = "decoded" /\ (bcCut \/ bcValue = NoValue)) => bcResult.st = "throws"

\* Whether two dictionaries hold the same entries.
SameEntries(x, y) ==
  /\ IsA(x, "dict")
  /\ IsA(y, "dict")
  /\ Len(x.dict) = Len(y.dict)
  /\ {x.dict[j] : j \in 1..Len(x.dict)} = {y.dict[j] : j \in 1..Len(y.dict)}

\* C16: bencode emits a dictionary's keys in sorted order whatever the order of
\* insertion: the bytes have the keys ascending, and any mapping with the same
\* entries encodes to the same bytes.
DictKeysEmittedSorted ==
  (bcPc = "encoded" /\ IsA(bcValue, "dict")) =>
    /\ \A y \in BcDictsOf(BcAtoms) : SameEntries(y, bcValue) => bencode(y) = bcEncoded
    /\ LET back == bdecode(bcEncoded) IN back.st = "ok" /\ SortedKeys(back.v)

\* C17: the compact encoding of k peers is 6 * k bytes, for each peer in list
\* order its four address bytes and then its port, high byte first, and
\* readCompactPeers gives back the same (ip, port) pairs in the same order.
CompactRoundTrip ==
  /\ cpPc # "start" =>
       /\ Len(cpBytes) = 6 * Len(cpPeers)
       /\ \A j \in 1..Len(cpPeers) :
            \E o \in CpQuads :
              /\ cpPeers[j].ip = DottedQuad(o)
              /\ SubSeq(cpBytes, 6 * j - 5, 6 * j - 2) = o
              /\ cpBytes[6 * j - 1] * 256 + cpBytes[6 * j] = cpPeers[j].port
  /\ cpPc = "decoded" => cpDecoded = cpPeers

\* Two peers went over UDP and came back, a port above 255 among them.
CompactRoundTripWitness ==
  /\ cpPc = "decoded"
  /\ cpTransport = "udp"
  /\ Len(cpDecoded) = 2
  /\ cpDecoded[1] = [ip |-> DottedQuad(<<192, 168, 1, 20>>), port |-> 6881]
  /\ cpDecoded[2] = [ip |-> DottedQuad(<<10, 0, 7, 255>>), port |-> 65535]
  /\ Len(cpBytes) = 12

\* C18: an announce sent with event stopped (event=stopped over HTTP, event code 3
\* over UDP) leaves the requester's ip:port out of the swarm with the counters
\* matching the remaining entries, is answered with an empty peer list, and no
\* response names a key that is not registered in the swarm.
StoppedAnnounceRemoves ==
  /\ lastReq.stopSent =>
       /\ lastReq.key \notin DOMAIN infoMap[lastReq.h].peers
       /\ infoMap[lastReq.h].complete + infoMap[lastReq.h].incomplete
            = Cardinality(DOMAIN infoMap[lastReq.h].peers)
       /\ lastPeers = <<>>
  /\ lastReq.via # "none" =>
       \A i \in 1 .. Len(lastPeers) : lastPeers[i] \in DOMAIN infoMap[lastReq.h].peers

\* C19: the peer list answering a non-stopped announce has no duplicates, holds only
\* keys registered in the same swarm other than the requester's, and has exactly
\* min(numWant, number of other registered peers) elements.
PeerListAsRequested ==
  (lastReq.via # "none" /\ lastReq.event # "stopped") =>
    LET others == DOMAIN infoMap[lastReq.h].peers \ {lastReq.key} IN
    /\ \A i, j \in 1 .. Len(lastPeers) : lastPeers[i] = lastPeers[j] => i = j
    /\ \A i \in 1 .. Len(lastPeers) : lastPeers[i] \in others
    /\ Len(lastPeers) = Min(lastReq.numWant, Cardinality(others))

\* The swarms the sweep of the current instant has gone through.
SweptNow ==
  IF lastSweep # now \/ now = 0 THEN {}
  ELSE IF sweepPos = 0 THEN DOMAIN infoMap
  ELSE {order[i] : i \in 1 .. sweepPos}

\* C20: a sweep deletes an entry only when its last announce is more than 15 minutes
\* old, and by then at most 30 minutes old, and takes one off the counter its state
\* names; a swarm the sweep has gone through keeps no entry older than 15 minutes;
\* no registered entry is ever older than 30 minutes.
StalePeersEvicted ==
  /\ \A e \in lastPass.evicted :
       /\ e.age > CLEANUP_INTERVAL
       /\ e.age <= 2 * CLEANUP_INTERVAL
       /\ \/ e.key \notin DOMAIN infoMap[lastPass.h].peers
          \/ infoMap[lastPass.h].peers[e.key].lastUpdated >= lastSweep
  /\ lastPass.after.complete
       = lastPass.before.complete - Cardinality({e \in lastPass.evicted : e.state = "seeder"})
  /\ lastPass.after.incomplete
       = lastPass.before.incomplete - Cardinality({e \in lastPass.evicted : e.state = "leecher"})
  /\ \A h \in SweptNow : \A k \in DOMAIN infoMap[h].peers :
       now - infoMap[h].peers[k].lastUpdated <= CLEANUP_INTERVAL
  /\ \A h \in DOMAIN infoMap : \A k \in DOMAIN infoMap[h].peers :
       now - infoMap[h].peers[k].lastUpdated <= 2 * CLEANUP_INTERVAL

\* The sweep 30 minutes after the start has finished: its last pass deleted an entry
\* that had announced at the start and kept one that is exactly 15 minutes old.
StalePeersEvictedWitness ==
  /\ now = 2 * CLEANUP_INTERVAL
  /\ lastSweep = now
  /\ sweepPos = 0
  /\ \E e \in lastPass.evicted :
       /\ e.age = 2 * CLEANUP_INTERVAL
       /\ e.key \notin DOMAIN infoMap[lastPass.h].peers
       /\ \E k \in DOMAIN infoMap[lastPass.h].peers :
            now - infoMap[lastPass.h].peers[k].lastUpdated = CLEANUP_INTERVAL

\* C21: validateRequestedBlock returns exactly when index < pieces.length,
\* length > 0 and offset + length is within the effective length of the piece;
\* it throws on every other request.
RequestedBlockAccepted ==
  blkOp = "request" =>
    ((blkResult = "ok") <=>
       /\ blkMsg.index < blkInfo.nPieces
       /\ blkMsg.length > 0
       /\ blkMsg.offset + blkMsg.length <= pieceLength(blkMsg.index, blkInfo))

\* C22: Storage.get and Storage.set at the absolute offset index * pieceLength + offset
\* accept a block exactly when validateReceivedBlock accepts the piece message
\* (index, offset, block of that length).
StorageChecksAsValidator ==
  blkOp = "storage" => ((blkResult = "ok") <=> validateReceivedBlock(blkInfo, blkMsg))

\* C23: a bitfield message that arrives after a bitfield has already been copied
\* into the peer ends the session and leaves the peer's recorded bitfield as it was.
BitfieldAtMostOnce ==
  (/\ Len(hvTrace) >= 2
   /\ hvTrace[Len(hvTrace)] = "bitfield"
   /\ \E i \in 1 .. (Len(hvTrace) - 1) : hvTrace[i] = "bitfield") =>
    /\ hvPc = "exited"
    /\ hvPeer = hvPrev

\* C24: a session starts a storage read only for a request that passed
\* validateRequestedBlock and arrived while amChoking was false; a storage read
\* happens only for such a pending request; and a piece is written to a peer only
\* when that read returned a block, carrying the request's index and offset and a
\* block of the requested length.
PieceOnlyAsReply ==
  [][\A c \in Conns :
       /\ (/\ c \in DOMAIN sess'
           /\ sess'[c].pc = "getPending"
           /\ (c \notin DOMAIN sess \/ sess[c].pc # "getPending")) =>
            /\ c \in DOMAIN sess
            /\ sess[c].pc = "reading"
            /\ ~sess[c].amChoking
            /\ validateRequestedBlock(TorrentInfo,
                 [index |-> sess'[c].index, offset |-> sess'[c].begin,
                  length |-> sess'[c].length])
       /\ (lastStorage'.op = "get" /\ lastStorage'.conn = c /\ lastStorage' # lastStorage) =>
            c \in DOMAIN sess /\ sess[c].pc = "getPending"
       /\ (/\ conns'[c].wire # conns[c].wire
           /\ conns'[c].wire # <<>>
           /\ conns'[c].wire[Len(conns'[c].wire)] = "piece") =>
            /\ c \in DOMAIN sess
            /\ sess[c].pc = "getPending"
            /\ lastStorage'.conn = c
            /\ lastStorage'.op = "get"
            /\ lastStorage'.result = "bytes"
            /\ lastStorage'.sent = [index |-> sess[c].index, offset |-> sess[c].begin,
                                    length |-> sess[c].length]
  ]_vars

\* A piece for block (0, 0) has just been written to a peer that the choking policy
\* choked again while the storage read was pending.
PieceOnlyAsReplyWitness ==
  /\ lastStorage.op = "get"
  /\ lastStorage.result = "bytes"
  /\ lastStorage.sent = [index |-> 0, offset |-> 0, length |-> BLOCK_SIZE]
  /\ conns[lastStorage.conn].wire # <<>>
  /\ conns[lastStorage.conn].wire[Len(conns[lastStorage.conn].wire)] = "piece"
  /\ sess[lastStorage.conn].pc = "reading"
  /\ sess[lastStorage.conn].amChoking

\* C25: addPeer is called only after all 68 bytes of a handshake were received
\* whose info hash field is the torrent's info hash and, on a dialled connection
\* with an advertised peer id, whose peer id field is that id; a handshake that
\* is cut short or fails one of these closes the connection.
HandshakeGuardsAddPeer ==
  /\ hsOutcome = "added" =>
       /\ Len(hsInput) >= 68
       /\ InfoHashField(hsInput) = HsInfoHash
       /\ (hsDir = "out" /\ hsAdv # <<>>) => PeerIdField(hsInput) = hsAdv
  /\ (/\ hsPc = "done"
      /\ \/ Len(hsInput) < 68
         \/ InfoHashField(hsInput) # HsInfoHash
         \/ (hsDir = "out" /\ hsAdv # <<>> /\ PeerIdField(hsInput) # hsAdv)) =>
       hsOutcome = "closed"

\* Where the k-th frame of rmFrames starts in the stream, and the frame (if any)
\* that starts at a position.
RECURSIVE FrameStart(_)
FrameStart(k) == IF k <= 1 THEN 0 ELSE FrameStart(k - 1) + Len(FrameBytes(rmFrames[k - 1]))

FrameIndexAt(pos) ==
  IF \E k \in 1 .. Len(rmFrames) + 1 : FrameStart(k) = pos
  THEN CHOOSE k \in 1 .. Len(rmFrames) + 1 : FrameStart(k) = pos
  ELSE 0

\* The lengths that go with each id of the protocol.
LengthConsistent(f) ==
  CASE f.id \in 0 .. 3 -> f.len = 1
    [] f.id = 4 -> f.len = 5
    [] f.id \in {6, 8} -> f.len = 13
    [] f.id = 7 -> f.len >= 9
    [] OTHER -> f.len >= 1

\* What a read that starts at frame k has to deliver: the frame it ends on, and
\* whether that is a typed message, a keep-alive or the end of the session.
RECURSIVE Delivered(_)
Delivered(k) ==
  IF k > Len(rmFrames) \/ FrameStart(k + 1) > Len(rmInput) THEN [kind |-> "null", frame |-> k]
  ELSE IF rmFrames[k].len = 0 THEN [kind |-> "keepalive", frame |-> k]
  ELSE IF rmFrames[k].id \in 0 .. 8
       THEN [kind |-> IF LengthConsistent(rmFrames[k]) THEN "msg" ELSE "null", frame |-> k]
  ELSE IF rmFrames[k].len >= 1 THEN Delivered(k + 1)
  ELSE [kind |-> "null", frame |-> k]

\* C26: readMessage returns a typed message only for a frame whose length goes
\* with its id (1 for ids 0-3, 5 for have, 13 for request and cancel, at least 9
\* for piece); a frame of a known id with another length ends the session; a
\* frame of an unknown id is skipped by exactly length-1 body bytes and the next
\* frame is read as usual; a frame of length 0 changes no peer state and the
\* session reads on.
FramesReadByLength ==
  rmLast.kind # "none" =>
    LET k == FrameIndexAt(rmLast.from)
        d == Delivered(k)
    IN /\ k # 0
       /\ rmLast.kind = d.kind
       /\ d.kind # "null" => rmPos = FrameStart(d.frame + 1)
       /\ d.kind = "msg" =>
            /\ LengthConsistent(rmFrames[d.frame])
            /\ rmLast.id = rmFrames[d.frame].id
            /\ rmLast.id \in {4, 6, 7, 8} => rmLast.ints = rmFrames[d.frame].ints
            /\ rmLast.id \in {5, 7} => rmLast.block = rmFrames[d.frame].block
       /\ rmLast.kind = "null" => rmPc # "reading"
       /\ rmLast.kind = "keepalive" =>
            /\ rmPc # "exited"
            /\ rmPc = "reading" => rmPeer = rmBefore

\* A keep-alive was read and dispatched, then a frame of an unknown id with a body
\* of 5 bytes was skipped and the have message after it was returned and handled.
FramesReadByLengthWitness ==
  /\ Len(rmFrames) = 3
  /\ rmFrames[1].len = 0
  /\ rmFrames[2] = Frame(6, 20, <<>>, <<0, 0, 0, 1, 0>>)
  /\ rmLast = Message(MsgHave, <<3>>, <<>>, 4)
  /\ rmPos = Len(rmInput)
  /\ rmPc = "reading"

\* C27: every announce sent before a success, the first successful one included,
\* carries event started; every announce sent after a success carries event
\* empty, and numWant 0 unless requestPeers() was called since that success; and
\* a sleep that the timer ends lasts the interval of the last successful announce.
AnnounceCarries ==
  /\ anPc = "announcing" =>
       /\ ~anSucceeded => anSent.event = "started"
       /\ anSucceeded => anSent.event = "empty"
       /\ (anSucceeded /\ ~anAsked) => anSent.numWant = 0
       /\ (anSucceeded /\ anWokenBy = "timer") => anSent.at - anSleptAt = anInterval
  /\ (anPc = "sleeping" /\ anSucceeded) => anNow - anSleptAt <= anInterval

\* After a success with interval 2 an announce failed; the loop slept 2 seconds
\* again and the timer started an announce with event empty and numWant 0.
AnnounceCarriesWitness ==
  /\ anPc = "announcing"
  /\ anSucceeded
  /\ anWokenBy = "timer"
  /\ anFailedAt # -1
  /\ anInterval = 2
  /\ anSent = [event |-> "empty", numWant |-> 0, at |-> 4]

\* C28: a requestPeers() call never throws, never leaves the announcer asleep
\* with time left on its timer, and the announce that follows it carries
\* numWant 50; also when it is called while an announce is in flight or before
\* the first announce has completed.
RequestPeersWakes ==
  /\ anReq \notin {"threw", "lost"}
  /\ anReq = "pending" => ~(anPc = "sleeping" /\ anNow < anWake)

\* The step in which a reply with another transaction id arrives.
IgnoredReply ==
  /\ ucPc \in {"awaitConnect", "awaitRequest"}
  /\ nUnmatched' = nUnmatched + 1
  /\ retryAttempt' = retryAttempt

\* C29: a reply with another transaction id leaves the client waiting for a
\* matching reply under the timeout that was running: the wait is not ended,
\* nothing is sent again and the deadline of the attempt stays what it was.
MismatchKeepsWaiting ==
  [][IgnoredReply => (ucPc' = ucPc /\ ucDeadline' = ucDeadline /\ nSent' = nSent)]_vars

\* C30: every request datagram is sent with a cached connection id that came
\* from a well-formed connect reply with the connect's transaction id, received
\* at most 60 seconds before the send; without such an id a connect is sent and
\* answered first.
RequestCarriesFreshId ==
  [][(ucPc = "loop" /\ ucPc' = "awaitRequest") =>
       /\ connectionId # "null"
       /\ ucConn.kind = "matchOk"
       /\ ucNow - ucConn.at >= 0
       /\ ucNow - ucConn.at <= 60 * 1000]_vars

\* The first connection id expired while requests timed out; a second connect
\* was answered and the request sent with the second id was answered.
RequestCarriesFreshIdWitness ==
  /\ ucPc = "returned"
  /\ ucConn.kind = "matchOk"
  /\ ucConn.at > 60 * 1000
  /\ retryAttempt >= 3
  /\ ucNow > ucConn.at

\* C31: tracker requests in progress at the same time do not interfere: no
\* request fails to start because of another one, and the socket of a request
\* receives only replies to that request's own datagrams.
UdpRequestsIndependent ==
  \A r \in UdpRequests :
    /\ skPc[r] # "failed"
    /\ skGot[r] \subseteq {r}

\* C32: a UDP datagram shorter than its action needs gets one reply, an error
\* frame, and nothing else happens: a short connect issues no connection id, and
\* a short announce or scrape with a known connection id is not delivered.
ShortDatagramDropped ==
  \A i \in 1..Len(srvLog) :
    LET e == srvLog[i] IN
    (/\ e.req.proto = "udp"
     /\ e.req.short
     /\ e.outcome \notin {"ignored", "unserved"}) =>
      e.outcome = "failure"

\* C33: in every swarm, complete is the number of registered peers whose state
\* is seeder and incomplete the number whose state is leecher, so neither is
\* ever negative.
CountersMatchStates ==
  \A h \in DOMAIN infoMap :
    LET peers == infoMap[h].peers IN
    /\ infoMap[h].complete = Cardinality({k \in DOMAIN peers : peers[k].state = "seeder"})
    /\ infoMap[h].incomplete = Cardinality({k \in DOMAIN peers : peers[k].state = "leecher"})
    /\ infoMap[h].complete >= 0
    /\ infoMap[h].incomplete >= 0

\* The value of at most four digits in base 256, the first below 128.
RECURSIVE DigitsValue(_)
DigitsValue(digits) ==
  IF digits = <<>> THEN 0
  ELSE DigitsValue(SubSeq(digits, 1, Len(digits) - 1)) * 256 + digits[Len(digits)]

\* The value fits a 31-bit integer: every digit before the last four is 0 and
\* the fourth from the end is below 128.
BelowTwoTo31(digits) ==
  \A i \in 1 .. Len(digits) :
    /\ i <= Len(digits) - 4 => digits[i] = 0
    /\ i = Len(digits) - 3 => digits[i] < 128

\* C34: for every width up to 8 and every value v below 256^width and below
\* 2^53, readInt after writeInt returns v, a non-negative integer. (readInt
\* returns a 32-bit integer, so it cannot return a v of 2^31 or more.)
IntRoundTrip ==
  byPc = "read" =>
    /\ intResult >= 0
    /\ BelowTwoTo31(intVal)
    /\ intResult = DigitsValue(SubSeq(intVal, Max(1, Len(intVal) - 3), Len(intVal)))

\* encodeBinaryData as the rule states it: '%' and two lowercase hex digits for
\* every byte that is not copied.
RECURSIVE TwoDigitEscapes(_)
TwoDigitEscapes(arr) ==
  IF arr = <<>> THEN <<>>
  ELSE (IF Unreserved(Head(arr)) THEN <<Head(arr)>>
        ELSE <<PERCENT, HexChar(Head(arr) \div 16), HexChar(Head(arr) % 16)>>)
       \o TwoDigitEscapes(Tail(arr))

\* C35: decodeBinaryData(encodeBinaryData(b)) = b for every byte sequence b, and
\* every byte that is not copied is written as '%' and exactly two lowercase hex
\* digits.
BinaryRoundTrip ==
  /\ byPc \in {"encoded", "decoded"} => bdText = TwoDigitEscapes(bdBytes)
  /\ byPc = "decoded" => bdBack = bdBytes

\* C36: amChoking is true for every peer in every reachable state of a torrent,
\* so no session ever waits for storage.get on behalf of a request and no piece
\* message is ever written to a connection.
AlwaysChoking ==
  /\ \A c \in DOMAIN sess : sess[c].amChoking /\ sess[c].pc # "getPending"
  /\ lastStorage.op # "get"
  /\ \A c \in Conns : \A i \in 1 .. Len(conns[c].wire) : conns[c].wire[i] # "piece"

\* A registered peer's valid request has just been refused, its session reads on.
AlwaysChokingWitness ==
  /\ lastStorage.op = "refused"
  /\ Live(lastStorage.conn)
  /\ Registered(lastStorage.conn)
  /\ sess[lastStorage.conn].pc = "reading"
  /\ sess[lastStorage.conn].amChoking

\* C37: while an inbound connection is stalled in its handshake (startReceiveHandshake
\* or endReceiveHandshake has not returned), the accept loop can still take the
\* next inbound connection.
StalledHandshakeDoesNotBlock ==
  \A c \in Conns :
    (accPc \in {"recvStart", "recvEnd"} /\ conns[c].state = "unused") => ENABLED Accept(c)

\* A set call of connection c that reached the StorageMethod and has not settled.
SetInFlight(c) ==
  /\ c \in DOMAIN sess
  /\ sess[c].pc = "setPending"
  /\ MethodCalled("set", TorrentInfo, sess[c].offset, sess[c].length,
                  IF sess[c].already THEN {sess[c].offset \div BLOCK_SIZE} ELSE {})

\* C38: Storage passes each block to the StorageMethod at most once: no call is
\* in flight for a block already written, and no two calls for the same block
\* are in flight at the same time.
BlockSetOnce ==
  /\ \A c \in Conns : SetInFlight(c) => (sess[c].offset \div BLOCK_SIZE) \notin written
  /\ \A c, d \in Conns :
       (c # d /\ SetInFlight(c) /\ SetInFlight(d)) => sess[c].offset # sess[d].offset

\* C39: bdecode terminates on every finite byte sequence: it returns a value or
\* throws.
BdecodeTerminates ==
  bcPc = "decoded" => bcResult.st \in {"ok", "throws"}

\* C40: handleAnnounce terminates and calls respond for every announce the server
\* delivers, whatever the size of the swarm and the value of numWant.
AnnounceResponds ==
  lastReq.via # "none" => lastReq.responded

============================================================================
